---- MODULE Spec2Model ----
(***************************************************************************)
(* Model of the event-driven trading core of Optiqo-paper-backtest:        *)
(*   - PortfolioManager   (src/engine/portfolio.py)                        *)
(*   - RiskManager        (src/engine/risk_manager.py)                     *)
(*   - EnhancedStrategyAdapter (src/engine/enhanced_strategy_adapter.py)   *)
(*   - StrategyManager    (src/engine/strategy_manager.py)                 *)
(*                                                                         *)
(* Arithmetic.  Quantities are Python ints.  Money amounts (prices, cash,  *)
(* brokerage) are modelled as exact integers in the smallest currency unit *)
(* and the average price, the only quotient the ledger computes, as an     *)
(* exact fraction in lowest terms; binary floating-point rounding is not   *)
(* modelled.                                                               *)
(***************************************************************************)
EXTENDS Integers, Sequences, FiniteSets, TLC

VARIABLES
    \* ---- PortfolioManager ------------------------------------------------
    current_cash,       \* self.current_cash
    positions,          \* self.positions: instrument_token -> position record
    portfolio_trades,   \* self.portfolio_trades
    equity_curve,       \* self.equity_curve
    store,              \* contents of POSITIONS_FILE
    fillLog,            \* history: every FillEvent handed to on_fill_event
    lastSave,           \* history: outcome of the latest _save_positions
    ledgerOp,           \* history: what the last ledger step was
    \* ---- SimulatedBroker ------------------------------------------------
    current_funds,      \* self.current_funds
    orders,             \* self.orders: order_id -> order_details
    trades,             \* self.trades
    slippage_percent,   \* self.slippage_percent, in thousandths (0.1% = 1)
    \* ---- RiskManager ----------------------------------------------------
    riskResult,         \* history: the latest validate_order call and result
    \* ---- EnhancedStrategyAdapter ----------------------------------------
    clock,              \* datetime.now(), in whole minutes
    is_enhanced,        \* self.is_enhanced
    signal_history,     \* self.signal_history
    signal_rate_limiter,\* self.signal_rate_limiter: minute -> instrument -> n
    order_events,       \* OrderEvents put on the event engine, in order
    accepted,           \* history: per instrument and minute, the signals
                        \* that became an OrderEvent
    adapterOp,          \* history: the signal handled by the latest adapter
                        \* call, if it was on_signal_event, and how far
                        \* the call took it
    \* ---- StrategyManager ------------------------------------------------
    strategies,         \* self.strategies: strategy_id -> StrategyInstance
    strategy_queues,    \* keys of self.strategy_queues
    strategy_events,    \* keys of self.strategy_events
    nextId,             \* the next identifier uuid4 hands out
    consec,             \* history: exceptions in a row per strategy_id
    managerOp,          \* history: the latest StrategyManager call
    everTerminal,       \* history: the registered instances that have been
                        \* STOPPED, COMPLETED or ERROR
    manager_now,        \* datetime.now() as seen by the manager, in seconds
    last_heartbeat,     \* StrategyInstance.last_heartbeat of each instance
    routing,            \* the route_market_event call in progress: the
                        \* identifier its loop is at and the instance whose
                        \* handler it is awaiting
    \* ---- TradeExecutor --------------------------------------------------
    all_orders,         \* self.all_orders
    fill_events,        \* FillEvents put on the event engine, in order
    brokerRet,          \* history: the latest broker call and what it returned
    \* ---- concurrent on_fill_event invocations ---------------------------
    fillTasks,          \* invocation -> its position and local variables
    \* ---- EventEngine, data feed, shutdown -------------------------------
    busQueue,           \* event kind -> queued events, oldest first
    busRun,             \* "running", "stopping" or "stopped"
    inflight,           \* the handler invocation the dispatch loop awaits
    feedSent,           \* rows of the CSV file the data feed has published
    busLog,             \* history: every put that returned and the start
                        \* and end of every handler invocation, in order
    placed,             \* history: orders the broker has answered
    audited,            \* history: orders appended to the audit log
    stopInflight,       \* history: the event in flight when stop was asked
    dispatched          \* history: the kind of event whose handler ran in
                        \* the latest step, where handlers run one by one

ledgerVars == <<current_cash, positions, portfolio_trades, equity_curve,
                store, fillLog, lastSave, ledgerOp>>

brokerVars == <<current_funds, orders, trades, slippage_percent>>

adapterVars == <<clock, is_enhanced, signal_history, signal_rate_limiter,
                 order_events, accepted, adapterOp>>

managerVars == <<strategies, strategy_queues, strategy_events, nextId,
                 consec, managerOp, everTerminal, manager_now,
                 last_heartbeat, routing>>

execVars == <<all_orders, fill_events, brokerRet>>

busVars == <<busQueue, busRun, inflight, feedSent, busLog, placed, audited,
             stopInflight>>

engineVars == <<execVars, fillTasks, busVars>>

vars == <<ledgerVars, brokerVars, riskResult, adapterVars, managerVars,
          engineVars, dispatched>>

----------------------------------------------------------------------------
(* Bounds and input sets                                                   *)

MaxFills == 3
MaxOrders == 3
MaxSignals == 11
MaxMinute == 1
MaxIds == 2
MaxErrorCount == 5
MaxTasks == 2
MaxTicks == 3
MaxEvents == 6
MaxCapIds == 3
MaxGateSignals == 2
MaxCycles == 11
max_concurrent_strategies == 2

Instruments == {"X", "Y"}
Quantities  == {50, 100}
Prices      == {100, 110}

\* FillEvent.transaction_type is copied from the order; the simulator accepts
\* any capitalisation (transaction_type.upper()), the ledger compares with
\* "BUY"/"SELL" literally, so a lower-case side reaches the ledger unchanged.
\* (the second instrument takes one quantity, one price and no brokerage,
\* which keeps the number of fill sequences small; brokerage 0 is what a
\* FillEvent carries when the broker response has no 'brokerage' key)
FillEvents ==
    [instrument_token : {"X"}, transaction_type : {"BUY", "SELL"},
     quantity : Quantities, price : Prices, brokerage : {20}]
    \cup
    [instrument_token : {"Y"}, transaction_type : {"BUY", "SELL"},
     quantity : {100}, price : {100}, brokerage : {0}]
    \cup
    [instrument_token : {"X"}, transaction_type : {"buy"},
     quantity : {100}, price : {100}, brokerage : {20}]

\* outcome of _save_positions: written; failed before the file was opened
\* for writing (file untouched); failed inside json.dump (file truncated)
SaveOutcomes == {"ok", "fail", "corrupt"}

InitialCash == 100000

----------------------------------------------------------------------------
(* Exact fractions                                                         *)

Abs(n) == IF n < 0 THEN -n ELSE n

RECURSIVE GCD(_, _)
GCD(a, b) == IF b = 0 THEN a ELSE GCD(b, a % b)

\* n/d in lowest terms with a positive denominator
Frac(n, d) ==
    LET g == GCD(Abs(n), Abs(d))
        s == IF d < 0 THEN -1 ELSE 1
    IN  [num |-> (s * n) \div g, den |-> (s * d) \div g]

FracOfInt(n) == [num |-> n, den |-> 1]

Zero == FracOfInt(0)

----------------------------------------------------------------------------
(* PortfolioManager                                                        *)

SelfId  == [broker_name |-> "SimulatedBroker", account_name |-> "acct",
            strategy_name |-> "EMACross"]
OtherId == [broker_name |-> "simulatedbroker", account_name |-> "acct",
            strategy_name |-> "GapUp"]

Upper(s) ==
    CASE s = "SimulatedBroker" -> "SIMULATEDBROKER"
      [] s = "simulatedbroker" -> "SIMULATEDBROKER"
      [] OTHER -> s

\* the path data[broker_key][account_name][strategy_name] of the JSON document
StoreKey(id) == <<Upper(id.broker_name), id.account_name, id.strategy_name>>

EmptyMap == [x \in {} |-> 0]

Qty(pos, inst) == IF inst \in DOMAIN pos THEN pos[inst].quantity ELSE 0

\* list(self.positions.values())
RECURSIVE PositionsList(_)
PositionsList(pos) ==
    IF DOMAIN pos = {} THEN << >>
    ELSE LET k == CHOOSE i \in DOMAIN pos : TRUE
         IN  <<pos[k]>> \o PositionsList([i \in DOMAIN pos \ {k} |-> pos[i]])

\* {p['instrument_token']: p for p in loaded_positions_list}
PositionsDict(list) ==
    [t \in {list[i].instrument_token : i \in DOMAIN list} |->
        list[CHOOSE i \in DOMAIN list :
                /\ list[i].instrument_token = t
                /\ \A j \in DOMAIN list :
                      list[j].instrument_token = t => j <= i]]

\* variant: the stored cash is not read back
LoadPositionsNoCash(st, id, initial_cash) ==
    IF st.status = "ok" /\ StoreKey(id) \in DOMAIN st.data
    THEN <<PositionsDict(st.data[StoreKey(id)].positions), initial_cash>>
    ELSE <<EmptyMap, initial_cash>>

\* _load_positions: <<positions, current_cash>> of a ledger constructed for id
LoadPositions(st, id, initial_cash) ==
    IF st.status = "absent" THEN <<EmptyMap, initial_cash>>
    ELSE IF st.status = "corrupt" THEN <<EmptyMap, initial_cash>>
    ELSE IF StoreKey(id) \in DOMAIN st.data
         THEN <<PositionsDict(st.data[StoreKey(id)].positions),
                st.data[StoreKey(id)].current_cash>>
         ELSE <<EmptyMap, initial_cash>>

\* _save_positions: the file after the call
SavePositions(st, id, pos, cash, outcome) ==
    IF outcome = "fail" THEN st
    ELSE IF outcome = "corrupt" THEN [status |-> "corrupt", data |-> EmptyMap]
    ELSE LET old  == IF st.status = "ok" THEN st.data ELSE EmptyMap
             part == [positions |-> PositionsList(pos), current_cash |-> cash]
         IN  [status |-> "ok",
              data   |-> [k \in DOMAIN old \cup {StoreKey(id)} |->
                             IF k = StoreKey(id) THEN part ELSE old[k]]]

\* variant: the brokerage is added to the SELL revenue
CashAfterFillSellAddsFee(cash, ev) ==
    IF ev.transaction_type = "BUY"
    THEN cash - ((ev.quantity * ev.price) + ev.brokerage)
    ELSE IF ev.transaction_type = "SELL"
    THEN cash + ((ev.quantity * ev.price) + ev.brokerage)
    ELSE cash

\* variant: the brokerage is charged on BUY fills only
CashAfterFillNoSellFee(cash, ev) ==
    IF ev.transaction_type = "BUY"
    THEN cash - ((ev.quantity * ev.price) + ev.brokerage)
    ELSE IF ev.transaction_type = "SELL"
    THEN cash + (ev.quantity * ev.price)
    ELSE cash

\* cash update of on_fill_event
CashAfterFill(cash, ev) ==
    IF ev.transaction_type = "BUY"
    THEN cash - ((ev.quantity * ev.price) + ev.brokerage)
    ELSE IF ev.transaction_type = "SELL"
    THEN cash + ((ev.quantity * ev.price) - ev.brokerage)
    ELSE cash

\* the position record on_fill_event works on (created when absent)
CurrentPos(pos, ev) ==
    IF ev.instrument_token \in DOMAIN pos THEN pos[ev.instrument_token]
    ELSE [instrument_token |-> ev.instrument_token, quantity |-> 0,
          avg_price |-> Zero, last_known_price |-> ev.price]

\* variant: a SELL that reverses the position re-opens it with the fill
\* quantity
UpdatedPosReopen(cur, ev) ==
    IF ev.transaction_type = "BUY" THEN
        LET new_quantity == cur.quantity + ev.quantity
        IN  [cur EXCEPT
               !.avg_price =
                   IF new_quantity = 0 THEN Zero
                   ELSE Frac(cur.quantity * cur.avg_price.num
                               + ev.quantity * ev.price * cur.avg_price.den,
                             cur.avg_price.den * new_quantity),
               !.quantity = new_quantity]
    ELSE IF ev.transaction_type = "SELL" THEN
        LET new_quantity == cur.quantity - ev.quantity
        IN  IF cur.quantity > 0 /\ new_quantity < 0
            THEN [cur EXCEPT !.avg_price = FracOfInt(ev.price),
                             !.quantity = 0 - ev.quantity]
            ELSE [cur EXCEPT
                    !.avg_price = IF new_quantity = 0 THEN Zero
                                  ELSE cur.avg_price,
                    !.quantity = new_quantity]
    ELSE cur

\* variant: the BUY average is the mean of the old average and the fill price
UpdatedPosUnweighted(cur, ev) ==
    IF ev.transaction_type = "BUY" THEN
        LET new_quantity == cur.quantity + ev.quantity
        IN  [cur EXCEPT
               !.avg_price =
                   IF new_quantity = 0 THEN Zero
                   ELSE IF cur.quantity = 0 THEN FracOfInt(ev.price)
                   ELSE Frac(cur.avg_price.num + ev.price * cur.avg_price.den,
                             cur.avg_price.den * 2),
               !.quantity = new_quantity]
    ELSE IF ev.transaction_type = "SELL" THEN
        LET new_quantity == cur.quantity - ev.quantity
        IN  [cur EXCEPT
               !.avg_price =
                   IF new_quantity = 0 THEN Zero
                   ELSE IF \/ (cur.quantity > 0 /\ new_quantity < 0)
                           \/ (cur.quantity < 0 /\ new_quantity > 0)
                        THEN FracOfInt(ev.price)
                        ELSE cur.avg_price,
               !.quantity = new_quantity]
    ELSE cur

\* the BUY / SELL branches: the updated position record
UpdatedPos(cur, ev) ==
    IF ev.transaction_type = "BUY" THEN
        LET new_quantity == cur.quantity + ev.quantity
        IN  [cur EXCEPT
               !.avg_price =
                   IF new_quantity = 0 THEN Zero
                   ELSE Frac(cur.quantity * cur.avg_price.num
                               + ev.quantity * ev.price * cur.avg_price.den,
                             cur.avg_price.den * new_quantity),
               !.quantity = new_quantity]
    ELSE IF ev.transaction_type = "SELL" THEN
        LET new_quantity == cur.quantity - ev.quantity
        IN  [cur EXCEPT
               !.avg_price =
                   IF new_quantity = 0 THEN Zero
                   ELSE IF \/ (cur.quantity > 0 /\ new_quantity < 0)
                           \/ (cur.quantity < 0 /\ new_quantity > 0)
                        THEN FracOfInt(ev.price)
                        ELSE cur.avg_price,
               !.quantity = new_quantity]
    ELSE cur

\* variant: a closed position is kept with quantity zero
PositionsAfterFillKeepZero(pos, ev) ==
    LET upd == UpdatedPos(CurrentPos(pos, ev), ev)
        t   == ev.instrument_token
    IN  [i \in DOMAIN pos \cup {t} |-> IF i = t THEN upd ELSE pos[i]]

\* positions after the fill, the zero-quantity entry removed
PositionsAfterFill(pos, ev) ==
    LET upd == UpdatedPos(CurrentPos(pos, ev), ev)
        t   == ev.instrument_token
    IN  IF upd.quantity = 0
        THEN [i \in DOMAIN pos \ {t} |-> pos[i]]
        ELSE [i \in DOMAIN pos \cup {t} |-> IF i = t THEN upd ELSE pos[i]]

\* _record_equity_snapshot
Snapshot(cash, pos) ==
    [cash |-> cash,
     positions |-> [i \in DOMAIN pos |-> pos[i].quantity],
     total_value |-> cash]

\* variant: only the latest snapshot is kept
RecordEquitySnapshotLatest(curve, cash, pos) == <<Snapshot(cash, pos)>>

\* self.equity_curve.append(...) of _record_equity_snapshot
RecordEquitySnapshot(curve, cash, pos) == Append(curve, Snapshot(cash, pos))

TradeRecord(ev, cash) ==
    [instrument_token |-> ev.instrument_token,
     transaction_type |-> ev.transaction_type,
     quantity |-> ev.quantity, price |-> ev.price,
     brokerage |-> ev.brokerage, current_cash_after_trade |-> cash]

LedgerInit ==
    /\ current_cash = InitialCash
    /\ positions = EmptyMap
    /\ portfolio_trades = << >>
    /\ equity_curve = <<Snapshot(InitialCash, EmptyMap)>>
    /\ store = [status |-> "absent", data |-> EmptyMap]
    /\ fillLog = << >>
    /\ lastSave = "none"
    /\ ledgerOp = "init"

LedgerIdle == UNCHANGED ledgerVars

\* variant: a fill whose save fails is undone in memory
OnFillEventRollback(ev, outcome) ==
    /\ Len(fillLog) < MaxFills
    /\ LET kept == outcome = "ok"
           cash == IF kept THEN CashAfterFill(current_cash, ev)
                   ELSE current_cash
           pos  == IF kept THEN PositionsAfterFill(positions, ev)
                   ELSE positions
       IN  /\ current_cash' = cash
           /\ positions' = pos
           /\ portfolio_trades' = Append(portfolio_trades, TradeRecord(ev, cash))
           /\ store' = SavePositions(store, SelfId, pos, cash, outcome)
           /\ equity_curve' = RecordEquitySnapshot(equity_curve, cash, pos)
    /\ fillLog' = Append(fillLog, ev)
    /\ lastSave' = outcome
    /\ ledgerOp' = "fill"

\* on_fill_event; outcome: what _save_positions meets
OnFillEvent(ev, outcome) ==
    /\ Len(fillLog) < MaxFills
    /\ LET cash == CashAfterFill(current_cash, ev)
           pos  == PositionsAfterFill(positions, ev)
       IN  /\ current_cash' = cash
           /\ positions' = pos
           /\ portfolio_trades' = Append(portfolio_trades, TradeRecord(ev, cash))
           /\ store' = SavePositions(store, SelfId, pos, cash, outcome)
           /\ equity_curve' = RecordEquitySnapshot(equity_curve, cash, pos)
    /\ fillLog' = Append(fillLog, ev)
    /\ lastSave' = outcome
    /\ ledgerOp' = "fill"

\* The process ends and a new PortfolioManager with the same identity is
\* constructed over the file: __init__ with _load_positions, then initialize()
Restart ==
    /\ LET loaded == LoadPositions(store, SelfId, InitialCash)
       IN  /\ positions' = loaded[1]
           /\ current_cash' = loaded[2]
           /\ equity_curve' = <<Snapshot(loaded[2], loaded[1])>>
    /\ portfolio_trades' = << >>
    /\ ledgerOp' = "restart"
    /\ UNCHANGED <<store, fillLog, lastSave>>

\* what the ledger of another strategy holds when it saves into the same file
OtherPositions ==
    [t \in {"Y"} |-> [instrument_token |-> "Y", quantity |-> 7,
                      avg_price |-> FracOfInt(3), last_known_price |-> 3]]
OtherCash == 555

\* _save_positions of the PortfolioManager of another strategy
OtherLedgerSave ==
    /\ store' = SavePositions(store, OtherId, OtherPositions, OtherCash, "ok")
    /\ ledgerOp' = "other"
    /\ UNCHANGED <<current_cash, positions, portfolio_trades, equity_curve,
                   fillLog, lastSave>>

----------------------------------------------------------------------------
(* SimulatedBroker.  Amounts are integers in hundredths of the currency    *)
(* unit, the resolution of round(fill_price, 2).                           *)

CurrencyScale == 100

InitialFunds     == 1000000 * CurrencyScale
BrokerageFee     == 20 * CurrencyScale
DefaultFillPrice == 100 * CurrencyScale

\* str.upper() / str.lower() on the strings the model uses
UpperCase(s) ==
    CASE s = "buy" -> "BUY" [] s = "sell" -> "SELL"
      [] s = "market" -> "MARKET" [] s = "limit" -> "LIMIT"
      [] OTHER -> s

LowerCase(s) ==
    CASE s = "ENTRY" -> "entry" [] s = "Entry" -> "entry"
      [] s = "EXIT" -> "exit"
      [] OTHER -> s

\* round(n/d) to the nearest integer, ties to even
RoundDiv(n, d) ==
    LET q == n \div d
        r == n % d
    IN  IF 2 * r < d THEN q
        ELSE IF 2 * r > d THEN q + 1
        ELSE IF q % 2 = 0 THEN q ELSE q + 1

\* fill price of a MARKET order: requested price (100 when none), slippage
\* added for BUY and subtracted otherwise, rounded to two decimals
FillPrice(transaction_type, price, slip) ==
    LET base == IF price > 0 THEN price ELSE DefaultFillPrice
    IN  IF UpperCase(transaction_type) = "BUY"
        THEN RoundDiv(base * 1000 + base * slip, 1000)
        ELSE RoundDiv(base * 1000 - base * slip, 1000)

\* calculate_brokerage: flat fee
CalculateBrokerage(instrument_dict) == BrokerageFee

\* calculate_margin: (price * quantity) * 0.1
CalculateMargin(instrument_dict) ==
    Frac(instrument_dict.price * instrument_dict.quantity, 10)

NoOrders == [x \in {} |-> 0]

BrokerInit ==
    /\ current_funds = InitialFunds
    /\ orders = NoOrders
    /\ trades = << >>
    /\ slippage_percent \in {0, 1}

BrokerIdle == UNCHANGED brokerVars

\* uuid4: an identifier no order has had
NewOrderId == Cardinality(DOMAIN orders) + 1

\* variant: a MARKET BUY is filled whatever the funds
PlacedOrderNoFundsCheck(req, drawOk, funds, slip) ==
    LET base == [order_id |-> NewOrderId,
                 instrument_token |-> req.instrument_token,
                 transaction_type |-> req.transaction_type,
                 quantity |-> req.quantity,
                 order_type |-> req.order_type,
                 price |-> req.price,
                 tag |-> req.tag,
                 status |-> "PENDING",
                 exchange_order_id |-> 0,
                 filled_quantity |-> 0,
                 filled_price |-> 0]
        fill_price == FillPrice(req.transaction_type, req.price, slip)
        filled == [base EXCEPT !.status = "FILLED",
                               !.filled_quantity = req.quantity,
                               !.filled_price = fill_price,
                               !.exchange_order_id = NewOrderId]
    IN  IF UpperCase(req.order_type) = "MARKET" /\ drawOk THEN
            IF UpperCase(req.transaction_type) = "BUY" THEN
                filled
            ELSE IF UpperCase(req.transaction_type) = "SELL" THEN filled
            ELSE base
        ELSE IF UpperCase(req.order_type) = "LIMIT" THEN base
        ELSE [base EXCEPT !.status = "REJECTED"]

\* place_order: the order_details returned, given the outcome of the
\* random.random() <= fill_chance draw
PlacedOrder(req, drawOk, funds, slip) ==
    LET base == [order_id |-> NewOrderId,
                 instrument_token |-> req.instrument_token,
                 transaction_type |-> req.transaction_type,
                 quantity |-> req.quantity,
                 order_type |-> req.order_type,
                 price |-> req.price,
                 tag |-> req.tag,
                 status |-> "PENDING",
                 exchange_order_id |-> 0,
                 filled_quantity |-> 0,
                 filled_price |-> 0]
        fill_price == FillPrice(req.transaction_type, req.price, slip)
        cost == fill_price * req.quantity + CalculateBrokerage(base)
        filled == [base EXCEPT !.status = "FILLED",
                               !.filled_quantity = req.quantity,
                               !.filled_price = fill_price,
                               !.exchange_order_id = NewOrderId]
    IN  IF UpperCase(req.order_type) = "MARKET" /\ drawOk THEN
            IF UpperCase(req.transaction_type) = "BUY" THEN
                IF funds >= cost THEN filled
                ELSE [base EXCEPT !.status = "REJECTED"]
            ELSE IF UpperCase(req.transaction_type) = "SELL" THEN filled
            ELSE base
        ELSE IF UpperCase(req.order_type) = "LIMIT" THEN base
        ELSE [base EXCEPT !.status = "REJECTED"]

\* the entry appended to self.trades for a filled order
TradeOf(od) ==
    [order_id |-> od.order_id, instrument_token |-> od.instrument_token,
     exchange_order_id |-> od.exchange_order_id,
     transaction_type |-> od.transaction_type, quantity |-> od.quantity,
     price |-> od.filled_price, brokerage |-> CalculateBrokerage(od)]

FundsAfter(od, funds) ==
    IF od.status # "FILLED" THEN funds
    ELSE IF UpperCase(od.transaction_type) = "BUY"
    THEN funds - (od.filled_price * od.quantity + CalculateBrokerage(od))
    ELSE funds + (od.filled_price * od.quantity - CalculateBrokerage(od))

PlaceOrder(req, drawOk) ==
    /\ Cardinality(DOMAIN orders) < MaxOrders
    /\ LET od == PlacedOrder(req, drawOk, current_funds, slippage_percent)
       IN  /\ orders' = [k \in DOMAIN orders \cup {od.order_id} |->
                            IF k = od.order_id THEN od ELSE orders[k]]
           /\ current_funds' = FundsAfter(od, current_funds)
           /\ trades' = IF od.status = "FILLED"
                        THEN Append(trades, TradeOf(od)) ELSE trades
    /\ UNCHANGED slippage_percent

----------------------------------------------------------------------------
(* RiskManager                                                             *)

\* which of the three broker queries raises, if any
QueryFailures == {"none", "margin", "brokerage", "funds"}

\* variant: the entry comparison is strict
CoversEntryStrict(funds, margin, brokerage) ==
    funds * margin.den > margin.num + brokerage * margin.den

\* available_margin >= margin_required + brokerage_required
CoversEntry(funds, margin, brokerage) ==
    funds * margin.den >= margin.num + brokerage * margin.den

\* variant: a failing funds query counts as no funds, and the margin and
\* brokerage already computed are reported
ValidateOrderKeepsQuotes(call, funds, failure) ==
    LET instrument_dict == [exchange_token |-> call.exchange_token,
                            quantity |-> call.quantity,
                            transaction_type |-> call.transaction_type,
                            price |-> call.price]
        margin_required    == CalculateMargin(instrument_dict)
        brokerage_required == CalculateBrokerage(instrument_dict)
    IN  IF failure \in {"margin", "brokerage"} THEN <<FALSE, Zero, 0>>
        ELSE IF failure = "funds"
        THEN <<FALSE, margin_required, brokerage_required>>
        ELSE IF LowerCase(call.trade_type) = "entry" THEN
            <<CoversEntry(funds, margin_required, brokerage_required),
              margin_required, brokerage_required>>
        ELSE IF LowerCase(call.trade_type) = "exit" THEN
            <<funds >= brokerage_required, margin_required, brokerage_required>>
        ELSE <<FALSE, Zero, 0>>

\* validate_order: <<is_valid, margin_required, brokerage_required>>
ValidateOrder(call, funds, failure) ==
    LET instrument_dict == [exchange_token |-> call.exchange_token,
                            quantity |-> call.quantity,
                            transaction_type |-> call.transaction_type,
                            price |-> call.price]
        margin_required    == CalculateMargin(instrument_dict)
        brokerage_required == CalculateBrokerage(instrument_dict)
    IN  IF failure # "none" THEN <<FALSE, Zero, 0>>
        ELSE IF LowerCase(call.trade_type) = "entry" THEN
            <<CoversEntry(funds, margin_required, brokerage_required),
              margin_required, brokerage_required>>
        ELSE IF LowerCase(call.trade_type) = "exit" THEN
            <<funds >= brokerage_required, margin_required, brokerage_required>>
        ELSE <<FALSE, Zero, 0>>

RiskInit ==
    riskResult = [called |-> FALSE]

\* a caller awaits validate_order
ValidateOrderCall(call, failure) ==
    /\ riskResult' = [called |-> TRUE, call |-> call, funds |-> current_funds,
                      failure |-> failure,
                      ret |-> ValidateOrder(call, current_funds, failure)]
    /\ UNCHANGED brokerVars

\* orders that bring the funds to the margin and brokerage boundaries
RiskOrders ==
    {[instrument_token |-> "X", transaction_type |-> "BUY", quantity |-> 9999,
      order_type |-> "MARKET", price |-> 100 * CurrencyScale, tag |-> "t"],
     [instrument_token |-> "X", transaction_type |-> "BUY", quantity |-> 1,
      order_type |-> "MARKET", price |-> 40 * CurrencyScale, tag |-> "t"],
     [instrument_token |-> "X", transaction_type |-> "SELL", quantity |-> 1,
      order_type |-> "MARKET", price |-> 20 * CurrencyScale - 1, tag |-> "t"]}

RiskCalls ==
    [exchange_token : {"X"}, quantity : {6, 7},
     transaction_type : {"BUY"},
     trade_type : {"entry", "exit", "ENTRY", "hold"},
     price : {100 * CurrencyScale}]

----------------------------------------------------------------------------
(* EnhancedStrategyAdapter                                                 *)

max_signals_per_minute == 10
MaxSignalQuantity == 10000

StrategyId == "strat_1"

Minutes == 0..MaxMinute

NoCounts == [x \in {} |-> 0]

AdapterInit ==
    /\ clock = 0
    /\ is_enhanced \in BOOLEAN
    /\ signal_history = << >>
    /\ signal_rate_limiter = NoCounts
    /\ order_events = << >>
    /\ accepted = [i \in Instruments |-> [m \in Minutes |-> 0]]
    /\ adapterOp = [op |-> "none"]

AdapterIdle == UNCHANGED adapterVars

\* the wall clock passes into the next minute bucket
TickMinute ==
    /\ clock < MaxMinute
    /\ clock' = clock + 1
    /\ adapterOp' = [op |-> "none"]
    /\ UNCHANGED <<is_enhanced, signal_history, signal_rate_limiter,
                   order_events, accepted>>

\* variant: no upper limit on the quantity
ValidateSignalNoCeiling(event) ==
    IF \/ event.instrument_token = ""
       \/ event.signal_type = ""
       \/ event.quantity <= 0
    THEN FALSE
    ELSE IF event.signal_type \notin {"BUY", "SELL"} THEN FALSE
    ELSE TRUE

\* _validate_signal
ValidateSignal(event) ==
    IF \/ event.instrument_token = ""
       \/ event.signal_type = ""
       \/ event.quantity <= 0
    THEN FALSE
    ELSE IF event.signal_type \notin {"BUY", "SELL"} THEN FALSE
    ELSE IF event.quantity > MaxSignalQuantity THEN FALSE
    ELSE TRUE

\* _record_signal: the record appended (max_history = 1000 is never reached
\* within MaxSignals)
SignalRecord(event, now) ==
    [timestamp |-> now, strategy_id |-> StrategyId,
     instrument_token |-> event.instrument_token,
     signal_type |-> event.signal_type, quantity |-> event.quantity,
     price |-> event.price, order_type |-> event.order_type,
     status |-> "pending"]

\* _cleanup_rate_limiter: the module imports datetime only, so evaluating
\* timedelta(hours=1) raises NameError before any bucket is removed
CleanupRateLimiter(limiter) == [raised |-> TRUE, limiter |-> limiter]

\* _check_rate_limit: the limiter after the call and how the call ended
\* ("false": limit reached, "true": counted, "raise": counted and the
\* clean-up raised)
CheckRateLimit(limiter, now, instrument_token) ==
    LET withMinute ==
            [m \in DOMAIN limiter \cup {now} |->
                IF m \in DOMAIN limiter THEN limiter[m] ELSE NoCounts]
        bucket  == withMinute[now]
        counted == [i \in DOMAIN bucket \cup {instrument_token} |->
                      IF i \in DOMAIN bucket THEN bucket[i] ELSE 0]
        created == [withMinute EXCEPT ![now] = counted]
    IN  IF counted[instrument_token] >= max_signals_per_minute
        THEN [result |-> "false", limiter |-> created]
        ELSE LET bumped == [created EXCEPT ![now][instrument_token] = @ + 1]
                 cleaned == CleanupRateLimiter(bumped)
             IN  [result |-> IF cleaned.raised THEN "raise" ELSE "true",
                  limiter |-> cleaned.limiter]

\* on_market_event: the rate limit is consulted here; a "false" result skips
\* the event and a raised exception is logged by the handler's except clause,
\* so strategy.handle_market_event is reached only on "true"
OnMarketEvent(instrument_token) ==
    /\ signal_rate_limiter' =
           CheckRateLimit(signal_rate_limiter, clock, instrument_token).limiter
    /\ adapterOp' = [op |-> "none"]
    /\ UNCHANGED <<clock, is_enhanced, signal_history, order_events, accepted>>
    /\ UNCHANGED riskResult

\* sum(abs(pos['quantity'] * pos['avg_price']) for pos in positions.values())
RECURSIVE TotalExposure(_)
TotalExposure(plist) ==
    IF plist = << >> THEN 0
    ELSE Abs(Head(plist).quantity * Head(plist).avg_price)
         + TotalExposure(Tail(plist))

\* variant: a notional equal to the concentration limit is refused too
CheckPortfolioRiskLimitsAtLimit(event, strategy_state) ==
    LET total_exposure == TotalExposure(strategy_state.positions)
        new_exposure   == event.quantity * event.price
    IN  IF 10 * new_exposure >= 3 * total_exposure THEN FALSE
        ELSE IF Abs(strategy_state.max_drawdown) > 15 THEN FALSE
        ELSE TRUE

\* _check_portfolio_risk_limits; max_drawdown is given in percent
CheckPortfolioRiskLimits(event, strategy_state) ==
    LET total_exposure == TotalExposure(strategy_state.positions)
        new_exposure   == event.quantity * event.price
    IN  IF 10 * new_exposure > 3 * total_exposure THEN FALSE
        ELSE IF Abs(strategy_state.max_drawdown) > 15 THEN FALSE
        ELSE TRUE

\* the OrderEvent built from an approved signal
OrderOf(event, enhanced) ==
    [instrument_token |-> event.instrument_token,
     transaction_type |-> event.signal_type,
     quantity |-> event.quantity,
     order_type |-> event.order_type,
     price |-> event.price,
     tag |-> IF enhanced THEN <<StrategyId, event.tag>> ELSE <<event.tag>>]

RiskCallOf(event) ==
    [exchange_token |-> event.instrument_token, quantity |-> event.quantity,
     transaction_type |-> event.signal_type, trade_type |-> "entry",
     price |-> event.price]

\* how far on_signal_event takes a signal: "invalid" (rejected by
\* _validate_signal), "gated" (dropped by _check_portfolio_risk_limits),
\* "rejected" (by the RiskManager) or "order" (an OrderEvent is put)
SignalOutcome(event, strategy_state, enhanced, ret) ==
    IF ~ValidateSignal(event) THEN "invalid"
    ELSE IF enhanced /\ ~CheckPortfolioRiskLimits(event, strategy_state)
    THEN "gated"
    ELSE IF ret[1] THEN "order" ELSE "rejected"

\* on_signal_event with _process_enhanced_signal / _process_original_signal
OnSignalEvent(event, strategy_state, failure) ==
    /\ Len(signal_history) < MaxSignals
    /\ LET call    == RiskCallOf(event)
           ret     == ValidateOrder(call, current_funds, failure)
           outcome == SignalOutcome(event, strategy_state, is_enhanced, ret)
       IN  /\ adapterOp' = [op |-> "signal", event |-> event,
                            state |-> strategy_state, outcome |-> outcome]
           /\ signal_history' =
                 IF outcome = "invalid" THEN signal_history
                 ELSE Append(signal_history, SignalRecord(event, clock))
           /\ riskResult' =
                 IF outcome \in {"invalid", "gated"} THEN riskResult
                 ELSE [called |-> TRUE, call |-> call, funds |-> current_funds,
                       failure |-> failure, ret |-> ret]
           /\ IF outcome = "order"
              THEN /\ order_events' =
                        Append(order_events, OrderOf(event, is_enhanced))
                   /\ accepted' =
                        [accepted EXCEPT
                           ![event.instrument_token][clock] = @ + 1]
              ELSE UNCHANGED <<order_events, accepted>>
    /\ UNCHANGED <<clock, is_enhanced, signal_rate_limiter>>

\* the signals of one instrument, and a malformed one
RateSignals ==
    {[instrument_token |-> "X", signal_type |-> "BUY", quantity |-> 1,
      price |-> 100 * CurrencyScale, order_type |-> "MARKET", tag |-> "t"],
     [instrument_token |-> "X", signal_type |-> "BUY", quantity |-> 0,
      price |-> 100 * CurrencyScale, order_type |-> "MARKET", tag |-> "t"]}

\* a strategy state inside the concentration and drawdown limits
CalmState ==
    [positions |-> <<[quantity |-> 10, avg_price |-> 100 * CurrencyScale]>>,
     max_drawdown |-> 0]

----------------------------------------------------------------------------
(* StrategyManager                                                         *)

max_errors == 5

StrategyIds == 1..MaxIds

NoStrategies == [x \in {} |-> 0]

NoRoute == [op |-> "none", target |-> 0, delivered |-> {}, raised |-> {}]

NotRouting == [active |-> FALSE, target |-> 0, at |-> 0, waiting |-> 0]

ManagerInit ==
    /\ strategies = NoStrategies
    /\ strategy_queues = {}
    /\ strategy_events = {}
    /\ nextId = 1
    /\ consec = [i \in StrategyIds |-> 0]
    /\ managerOp = NoRoute
    /\ everTerminal = {}
    /\ manager_now = 0
    /\ last_heartbeat = NoStrategies
    /\ routing = NotRouting

ManagerIdle == UNCHANGED managerVars

\* StrategyStatus values after which an instance is no longer scheduled
TerminalStatuses == {"STOPPED", "COMPLETED", "ERROR"}

\* last_heartbeat=datetime.now() of a new StrategyInstance; the calls other
\* than the health monitor leave the heartbeats alone and take no time
StampHeartbeat ==
    /\ last_heartbeat' =
          [k \in DOMAIN strategies' |->
              IF k \in DOMAIN strategies THEN last_heartbeat[k] ELSE manager_now]
    /\ UNCHANGED manager_now

\* history kept with every StrategyManager call
TrackTerminal ==
    everTerminal' =
        (everTerminal \cap DOMAIN strategies')
        \cup {id \in DOMAIN strategies' :
                 strategies'[id].status \in TerminalStatuses}

\* StrategyInstance(...) as add_strategy constructs it
NewInstance(id) ==
    [id |-> id, status |-> "INITIALIZING", error_count |-> 0,
     max_errors |-> max_errors]

\* _initialize_strategy
InitializeStrategy(inst, initOk) ==
    IF initOk THEN [inst EXCEPT !.status = "RUNNING"]
    ELSE [inst EXCEPT !.status = "ERROR", !.error_count = @ + 1]

\* variant: the limit is compared strictly
AtCapacityAbove(strats) ==
    Cardinality(DOMAIN strats) > max_concurrent_strategies

\* len(self.strategies) >= self.max_concurrent_strategies
AtCapacity(strats) ==
    Cardinality(DOMAIN strats) >= max_concurrent_strategies

\* add_strategy; ctorOk: strategy_class(...) returns, initOk: initialize()
\* returns; lastId: the last identifier the model hands out
AddStrategyWithin(ctorOk, initOk, lastId) ==
    /\ IF AtCapacity(strategies)
       THEN /\ managerOp' = [NoRoute EXCEPT !.op = "add_refused"]
            /\ UNCHANGED <<strategies, strategy_queues, strategy_events,
                           nextId>>
       ELSE /\ nextId <= lastId
            /\ nextId' = nextId + 1
            /\ managerOp' = [NoRoute EXCEPT !.op = "add"]
            /\ IF ~ctorOk
               THEN UNCHANGED <<strategies, strategy_queues, strategy_events>>
               ELSE /\ strategies' =
                         [k \in DOMAIN strategies \cup {nextId} |->
                            IF k = nextId
                            THEN InitializeStrategy(NewInstance(nextId), initOk)
                            ELSE strategies[k]]
                    /\ strategy_events' = strategy_events \cup {nextId}
                    /\ strategy_queues' =
                         IF initOk THEN strategy_queues \cup {nextId}
                         ELSE strategy_queues \ {nextId}
    /\ UNCHANGED consec

AddStrategy(ctorOk, initOk) == AddStrategyWithin(ctorOk, initOk, MaxIds)

\* remove_strategy (with _stop_strategy, whose result is deleted with the
\* instance)
RemoveStrategy(id) ==
    /\ managerOp' = [NoRoute EXCEPT !.op = "remove"]
    /\ IF id \notin DOMAIN strategies
       THEN UNCHANGED <<strategies, strategy_queues, strategy_events>>
       ELSE /\ strategies' = [k \in DOMAIN strategies \ {id} |-> strategies[k]]
            /\ strategy_queues' = strategy_queues \ {id}
            /\ strategy_events' = strategy_events \ {id}
    /\ consec' = [consec EXCEPT ![id] = 0]
    /\ UNCHANGED nextId

\* pause_strategy
PauseStrategy(id) ==
    /\ managerOp' = [NoRoute EXCEPT !.op = "pause"]
    /\ strategies' = IF id \in DOMAIN strategies
                     THEN [strategies EXCEPT ![id].status = "PAUSED"]
                     ELSE strategies
    /\ UNCHANGED <<strategy_queues, strategy_events, nextId, consec>>

\* resume_strategy
ResumeStrategy(id) ==
    /\ managerOp' = [NoRoute EXCEPT !.op = "resume"]
    /\ strategies' = IF id \in DOMAIN strategies
                     THEN [strategies EXCEPT ![id].status = "RUNNING"]
                     ELSE strategies
    /\ UNCHANGED <<strategy_queues, strategy_events, nextId, consec>>

\* variant: the threshold comparison is strict
SendEventToStrategyLate(inst, outcome) ==
    IF outcome = "raise"
    THEN LET n == inst.error_count + 1
         IN  [inst EXCEPT !.error_count = n,
                          !.status = IF n > inst.max_errors
                                     THEN "ERROR" ELSE @]
    ELSE inst

\* _send_event_to_strategy: the instance after handle_market_event returned
\* ("ok") or raised ("raise")
SendEventToStrategy(inst, outcome) ==
    IF outcome = "raise"
    THEN LET n == inst.error_count + 1
         IN  [inst EXCEPT !.error_count = n,
                          !.status = IF n >= inst.max_errors
                                     THEN "ERROR" ELSE @]
    ELSE inst

\* the loop of route_market_event over self.strategies.items(), from the
\* identifier `from` on (identifiers are handed out in increasing order, so
\* this is the dict's insertion order); r accumulates the result
RECURSIVE RouteFrom(_, _, _)
RouteFrom(r, from, outcomes) ==
    IF from > MaxIds THEN r
    ELSE IF from \in DOMAIN r.strategies
            /\ r.strategies[from].status = "RUNNING"
    THEN RouteFrom(
            [strategies |->
                [r.strategies EXCEPT
                   ![from] = SendEventToStrategy(@, outcomes[from])],
             delivered |-> r.delivered \cup {from},
             raised |-> IF outcomes[from] = "raise"
                        THEN r.raised \cup {from} ELSE r.raised],
            from + 1, outcomes)
    ELSE RouteFrom(r, from + 1, outcomes)

\* variant: the first exception leaves the loop
RouteAllAbort(strats, outcomes) ==
    LET running == {i \in DOMAIN strats : strats[i].status = "RUNNING"}
        bad     == {i \in running : outcomes[i] = "raise"}
        upto    == IF bad = {} THEN running
                   ELSE {i \in running : \A b \in bad : i <= b}
    IN  [strategies |->
            [k \in DOMAIN strats |->
                IF k \in upto THEN SendEventToStrategy(strats[k], outcomes[k])
                ELSE strats[k]],
         delivered |-> upto,
         raised |-> upto \cap bad]

\* route_market_event(event): broadcast
RouteAll(strats, outcomes) ==
    RouteFrom([strategies |-> strats, delivered |-> {}, raised |-> {}],
              1, outcomes)

\* variant: the targeted instance is invoked whatever its status
RouteOneAnyStatus(strats, id, outcomes) ==
    IF id \in DOMAIN strats
    THEN [strategies |->
              [strats EXCEPT ![id] = SendEventToStrategy(@, outcomes[id])],
          delivered |-> {id},
          raised |-> IF outcomes[id] = "raise" THEN {id} ELSE {}]
    ELSE [strategies |-> strats, delivered |-> {}, raised |-> {}]

\* route_market_event(event, strategy_id)
RouteOne(strats, id, outcomes) ==
    IF id \in DOMAIN strats /\ strats[id].status = "RUNNING"
    THEN [strategies |->
              [strats EXCEPT ![id] = SendEventToStrategy(@, outcomes[id])],
          delivered |-> {id},
          raised |-> IF outcomes[id] = "raise" THEN {id} ELSE {}]
    ELSE [strategies |-> strats, delivered |-> {}, raised |-> {}]

\* route_market_event; target 0 stands for strategy_id = None.  outcomes
\* tells for each instance what its handle_market_event does when invoked.
RouteMarketEvent(target, outcomes) ==
    /\ \A i \in StrategyIds :
          outcomes[i] = "raise" =>
             /\ i \in DOMAIN strategies
             /\ strategies[i].status = "RUNNING"
             /\ target \in {0, i}
             /\ strategies[i].error_count < MaxErrorCount
    /\ LET r == IF target = 0 THEN RouteAll(strategies, outcomes)
                ELSE RouteOne(strategies, target, outcomes)
       IN  /\ strategies' = r.strategies
           /\ managerOp' = [op |-> "route", target |-> target,
                            delivered |-> r.delivered, raised |-> r.raised]
           /\ consec' = [i \in StrategyIds |->
                           IF i \in r.raised THEN consec[i] + 1
                           ELSE IF i \in r.delivered THEN 0
                           ELSE consec[i]]
    /\ UNCHANGED <<strategy_queues, strategy_events, nextId>>

----------------------------------------------------------------------------
(* SimulatedBroker.cancel_order / modify_order and TradeExecutor           *)

\* dict.update: the keys of kw overwrite or extend those of d
Merged(d, kw) ==
    [k \in DOMAIN d \cup DOMAIN kw |-> IF k \in DOMAIN kw THEN kw[k] ELSE d[k]]

\* variant: the status of the order is not looked at
CancelledOrdersAny(ords, order_id) ==
    IF order_id \in DOMAIN ords
    THEN [ret |-> "success",
          orders |-> [ords EXCEPT ![order_id].status = "CANCELLED"]]
    ELSE [ret |-> "failed", orders |-> ords]

\* cancel_order: what it returns and the order book afterwards
CancelledOrders(ords, order_id) ==
    IF order_id \in DOMAIN ords /\ ords[order_id].status = "PENDING"
    THEN [ret |-> "success",
          orders |-> [ords EXCEPT ![order_id].status = "CANCELLED"]]
    ELSE [ret |-> "failed", orders |-> ords]

\* modify_order(**kwargs): what it returns and the order book afterwards
ModifiedOrders(ords, kwargs) ==
    LET order_id == kwargs.order_id
    IN  IF order_id \in DOMAIN ords /\ ords[order_id].status = "PENDING"
        THEN [ret |-> "success",
              orders |-> [ords EXCEPT ![order_id] = Merged(@, kwargs)]]
        ELSE [ret |-> "failed", orders |-> ords]

CancelOrder(order_id) ==
    LET r == CancelledOrders(orders, order_id)
    IN  /\ orders' = r.orders
        /\ brokerRet' = [op |-> "cancel", order_id |-> order_id,
                         status |-> r.ret]
        /\ UNCHANGED <<current_funds, trades, slippage_percent>>

ModifyOrder(kwargs) ==
    LET r == ModifiedOrders(orders, kwargs)
    IN  /\ orders' = r.orders
        /\ brokerRet' = [op |-> "modify", order_id |-> kwargs.order_id,
                         status |-> r.ret]
        /\ UNCHANGED <<current_funds, trades, slippage_percent>>

\* the order ids cancel_order and modify_order are called with (one of them
\* never handed out) and the fields modify_order is given
OrderIds == 1..(MaxOrders + 1)

ModifyKwargs ==
    {[order_id |-> i, price |-> 50 * CurrencyScale] : i \in OrderIds}

ExecInit ==
    /\ all_orders = << >>
    /\ fill_events = << >>
    /\ brokerRet = [op |-> "none"]

\* how the broker answers place_order: with order_details ("ok"), with
\* nothing ("empty", a BaseBroker other than the simulated one) or with an
\* exception ("raise")
PlaceOutcomes == {"ok", "empty", "raise"}

\* order_record before the broker is asked (lines 50-53)
OrderRecord(event, n) ==
    Merged(event, [status |-> "PENDING", order_id |-> 0 - n])

\* variant: every answer that is not a rejection is taken for a fill
PublishesFillUnlessRejected(order_record) ==
    order_record.status # "REJECTED"

\* order_record.get("status") == "FILLED"
PublishesFill(order_record) ==
    order_record.status = "FILLED"

\* FillEvent(...) built from the updated order_record
FillEventOf(order_record) ==
    [order_id |-> order_record.order_id,
     instrument_token |-> order_record.instrument_token,
     exchange_order_id |-> order_record.exchange_order_id,
     transaction_type |-> order_record.transaction_type,
     quantity |-> order_record.filled_quantity,
     price |-> order_record.filled_price,
     brokerage |-> IF "brokerage" \in DOMAIN order_record
                   THEN order_record.brokerage ELSE 0]

\* variant: the record is appended after the try statement, not in finally
AuditLogNoFinally(log, order_record, outcome) ==
    IF outcome = "raise" THEN log ELSE Append(log, order_record)

\* finally: self.all_orders.append(order_record)
AuditLog(log, order_record, outcome) ==
    Append(log, order_record)

\* on_order_event
OnOrderEvent(event, drawOk, outcome) ==
    /\ Len(all_orders) < MaxOrders
    /\ brokerRet' = [op |-> "place", outcome |-> outcome, drawOk |-> drawOk,
                     event |-> event]
    /\ LET base == OrderRecord(event, Len(all_orders) + 1)
       IN  IF outcome = "ok"
           THEN LET od  == PlacedOrder(event, drawOk, current_funds,
                                       slippage_percent)
                    rec == Merged(base, od)
                IN  /\ PlaceOrder(event, drawOk)
                    /\ all_orders' = AuditLog(all_orders, rec, outcome)
                    /\ fill_events' =
                         IF PublishesFill(rec)
                         THEN Append(fill_events, FillEventOf(rec))
                         ELSE fill_events
           ELSE /\ all_orders' =
                     AuditLog(all_orders,
                              [base EXCEPT !.status =
                                  IF outcome = "empty" THEN "FAILED"
                                  ELSE "ERROR"],
                              outcome)
                /\ UNCHANGED fill_events
                /\ UNCHANGED brokerVars

\* OrderEvents: a BUY that leaves 80.00 of the funds, BUYs that cost exactly
\* and one hundredth more than that, a SELL and a LIMIT order
ExecOrders ==
    {[instrument_token |-> "X", transaction_type |-> "BUY", quantity |-> 9999,
      order_type |-> "MARKET", price |-> 100 * CurrencyScale, tag |-> "t"],
     [instrument_token |-> "X", transaction_type |-> "BUY", quantity |-> 1,
      order_type |-> "MARKET", price |-> 60 * CurrencyScale, tag |-> "t"],
     [instrument_token |-> "X", transaction_type |-> "BUY", quantity |-> 1,
      order_type |-> "MARKET", price |-> 60 * CurrencyScale + 1, tag |-> "t"],
     [instrument_token |-> "X", transaction_type |-> "SELL", quantity |-> 1,
      order_type |-> "MARKET", price |-> 100 * CurrencyScale, tag |-> "t"],
     [instrument_token |-> "X", transaction_type |-> "BUY", quantity |-> 1,
      order_type |-> "LIMIT", price |-> 100 * CurrencyScale, tag |-> "t"]}

SmallBuy ==
    [instrument_token |-> "X", transaction_type |-> "BUY", quantity |-> 1,
     order_type |-> "MARKET", price |-> 60 * CurrencyScale, tag |-> "t"]

\* the order events handled: each order with a broker that answers and a
\* draw that fills, and one order with each other behaviour of the broker
ExecCalls ==
    {[event |-> ev, drawOk |-> TRUE, outcome |-> "ok"] : ev \in ExecOrders}
    \cup
    {[event |-> SmallBuy, drawOk |-> FALSE, outcome |-> "ok"],
     [event |-> SmallBuy, drawOk |-> TRUE, outcome |-> "empty"],
     [event |-> SmallBuy, drawOk |-> TRUE, outcome |-> "raise"]}

----------------------------------------------------------------------------
(* on_fill_event as a coroutine: invocations that share the ledger.  The   *)
(* body is cut into its statements; an invocation runs from where it is to *)
(* the next await, and every await is taken as a possible suspension.      *)

TaskIds == 1..MaxTasks

\* the statements of on_fill_event in program order: the cash update (lines
\* 121-128), the reading and computing of the position (131-165), the
\* writing of quantity and the deletion at zero (149/167-171), the trade
\* record and the save (175-187), the equity snapshot (191)
FillSteps == <<"cash", "read", "write", "record", "snapshot">>

\* variant: the handler awaits between computing and writing the position
FillYieldPointsBeforeWrite == {"write", "snapshot"}

\* the statements that start with an await
FillYieldPoints == {"snapshot"}

TaskIdle == 0
TaskDone == Len(FillSteps) + 1

NoLocal == [quantity |-> 0]

TaskInit ==
    fillTasks = [t \in TaskIds |->
                    [pc |-> TaskIdle, ev |-> NoLocal, upd |-> NoLocal]]

\* one statement: r.L is the ledger, r.upd the local current_pos
FillStep1(r, name, ev) ==
    LET L == r.L
    IN  CASE name = "cash" ->
               [r EXCEPT !.L.cash = CashAfterFill(L.cash, ev)]
          [] name = "read" ->
               [r EXCEPT !.upd = UpdatedPos(CurrentPos(L.pos, ev), ev)]
          [] name = "write" ->
               LET t == ev.instrument_token
               IN  [r EXCEPT !.L.pos =
                      IF r.upd.quantity = 0
                      THEN [i \in DOMAIN L.pos \ {t} |-> L.pos[i]]
                      ELSE [i \in DOMAIN L.pos \cup {t} |->
                              IF i = t THEN r.upd ELSE L.pos[i]]]
          [] name = "record" ->
               [r EXCEPT
                  !.L.trades = Append(L.trades, TradeRecord(ev, L.cash)),
                  !.L.store = SavePositions(L.store, SelfId, L.pos, L.cash,
                                            "ok")]
          [] name = "snapshot" ->
               [r EXCEPT !.L.curve = Append(L.curve, Snapshot(L.cash, L.pos))]

\* run from statement i to the next suspension or to the end; first: the
\* invocation resumes at statement i and executes it
RECURSIVE RunFill(_, _, _, _)
RunFill(r, i, first, ev) ==
    IF i > Len(FillSteps) THEN [r EXCEPT !.pc = TaskDone]
    ELSE IF ~first /\ FillSteps[i] \in FillYieldPoints
    THEN [r EXCEPT !.pc = i]
    ELSE RunFill(FillStep1(r, FillSteps[i], ev), i + 1, FALSE, ev)

LedgerRecord ==
    [cash |-> current_cash, pos |-> positions, trades |-> portfolio_trades,
     curve |-> equity_curve, store |-> store]

\* the ledger and the invocation after a run
FillRan(t, r, ev) ==
    /\ current_cash' = r.L.cash
    /\ positions' = r.L.pos
    /\ portfolio_trades' = r.L.trades
    /\ equity_curve' = r.L.curve
    /\ store' = r.L.store
    /\ lastSave' = IF r.L.store = store THEN lastSave ELSE "ok"
    /\ ledgerOp' = "fill"
    /\ fillTasks' = [fillTasks EXCEPT ![t] = [pc |-> r.pc, ev |-> ev,
                                              upd |-> r.upd]]

\* the loop starts on_fill_event(ev) as invocation t
StartFill(t, ev) ==
    /\ fillTasks[t].pc \in {TaskIdle, TaskDone}
    /\ Len(fillLog) < MaxFills
    /\ fillLog' = Append(fillLog, ev)
    /\ FillRan(t, RunFill([L |-> LedgerRecord, upd |-> NoLocal,
                           pc |-> TaskIdle], 1, FALSE, ev), ev)

\* the loop resumes invocation t at its await
ResumeFill(t) ==
    /\ fillTasks[t].pc \notin {TaskIdle, TaskDone}
    /\ UNCHANGED fillLog
    /\ FillRan(t, RunFill([L |-> LedgerRecord, upd |-> fillTasks[t].upd,
                           pc |-> fillTasks[t].pc],
                          fillTasks[t].pc, TRUE, fillTasks[t].ev),
               fillTasks[t].ev)

TaskFills ==
    {[instrument_token |-> "X", transaction_type |-> "BUY", quantity |-> 100,
      price |-> 100, brokerage |-> 20],
     [instrument_token |-> "X", transaction_type |-> "SELL", quantity |-> 50,
      price |-> 110, brokerage |-> 20],
     [instrument_token |-> "Y", transaction_type |-> "SELL", quantity |-> 100,
      price |-> 100, brokerage |-> 0]}

\* cash and positions after the fills of log applied one at a time
RECURSIVE ReplayCash(_, _)
ReplayCash(log, cash) ==
    IF log = << >> THEN cash
    ELSE ReplayCash(Tail(log), CashAfterFill(cash, Head(log)))

RECURSIVE ReplayPositions(_, _)
ReplayPositions(log, pos) ==
    IF log = << >> THEN pos
    ELSE ReplayPositions(Tail(log), PositionsAfterFill(pos, Head(log)))

----------------------------------------------------------------------------
(* EventEngine, its publishers and its shutdown.  The registrations, the   *)
(* publishers and the shutdown sequence are those of main.py, data_feed.py *)
(* and the handlers; the queue and the dispatch loop are the EventBus of   *)
(* the specification, section 4.1 and section 5.                           *)

EventKinds == {"Market", "Signal", "Order", "Fill"}

\* EventEngine(queue_maxsize=...)
queue_maxsize == 2

\* variant: the ledger's fill handler is registered for orders as well
HandlersLedgerOnOrder(kind) ==
    CASE kind = "Market" -> <<"strategy_adapter.on_market_event">>
      [] kind = "Signal" -> <<"strategy_adapter.on_signal_event">>
      [] kind = "Order"  -> <<"trade_executor.on_order_event",
                              "portfolio_manager.on_fill_event">>
      [] kind = "Fill"   -> <<"strategy_adapter.on_fill_event",
                              "portfolio_manager.on_fill_event">>

\* register_handlers: the handlers of a kind in registration order
Handlers(kind) ==
    CASE kind = "Market" -> <<"strategy_adapter.on_market_event">>
      [] kind = "Signal" -> <<"strategy_adapter.on_signal_event">>
      [] kind = "Order"  -> <<"trade_executor.on_order_event">>
      [] kind = "Fill"   -> <<"strategy_adapter.on_fill_event",
                              "portfolio_manager.on_fill_event">>

\* the kind of event the first handler of a kind puts on the engine
Derived(kind) ==
    CASE kind = "Market" -> "Signal"
      [] kind = "Signal" -> "Order"
      [] kind = "Order"  -> "Fill"
      [] OTHER           -> "none"

\* how many events one invocation may put: a strategy may emit several
\* signals for one tick, the adapter one order for a signal, the executor
\* one fill for an order
PublishLimit(kind) ==
    CASE kind = "Market" -> 2
      [] kind = "Signal" -> 1
      [] kind = "Order"  -> 1
      [] OTHER           -> 0

NoEvent == [id |-> 0, kind |-> "none", cause |-> 0]

NoInflight == [active |-> FALSE, ev |-> NoEvent, h |-> 0, pc |-> "none",
               todo |-> 0]

BusInit ==
    /\ busQueue = [k \in EventKinds |-> << >>]
    /\ busRun = "running"
    /\ inflight = NoInflight
    /\ feedSent = 0
    /\ busLog = << >>
    /\ placed = {}
    /\ audited = {}
    /\ stopInflight = 0

LogEntry(e, h, phase) ==
    [id |-> e.id, kind |-> e.kind, cause |-> e.cause, h |-> h,
     phase |-> phase]

IsPut(entry) == entry.phase = "put"

\* the events whose put has returned, in order
PubLog == SelectSeq(busLog, IsPut)

\* variant: a put on a full queue returns at once and the event is gone
PutDrop(q, e) ==
    IF Len(q) < queue_maxsize
    THEN [returned |-> TRUE, queue |-> Append(q, e)]
    ELSE [returned |-> TRUE, queue |-> q]

\* put: returns once the event is in the queue; on a full queue the caller
\* stays suspended
Put(q, e) ==
    IF Len(q) < queue_maxsize
    THEN [returned |-> TRUE, queue |-> Append(q, e)]
    ELSE [returned |-> FALSE, queue |-> q]

\* variant: the dispatch loop takes the newest event
ReceiveNewest(q) ==
    [event |-> q[Len(q)], queue |-> SubSeq(q, 1, Len(q) - 1)]

\* the dispatch loop takes the oldest event of the queue
Receive(q) ==
    [event |-> Head(q), queue |-> Tail(q)]

\* variant: handlers run detached and the loop goes on to the next event
DispatchReadyDetached(inf) == inf.pc # "start"

\* the loop awaits the handlers of an event before it takes the next one
DispatchReady(inf) == ~inf.active

\* variant: cancelling the loop abandons the invocation it awaits
InflightAfterStopCancelled(inf) == NoInflight

\* stopping lets the invocation in flight complete
InflightAfterStop(inf) == inf

\* the loop and the other tasks take turns at suspension points only
AtSuspension == inflight.pc # "start"

\* generate_ticks: await self.event_engine.put(market_event) for the next row
FeedPut ==
    /\ busRun = "running"
    /\ AtSuspension
    /\ feedSent < MaxTicks
    /\ Len(PubLog) < MaxEvents
    /\ LET e == [id |-> Len(PubLog) + 1, kind |-> "Market", cause |-> 0]
           r == Put(busQueue["Market"], e)
       IN  /\ r.returned
           /\ busQueue' = [busQueue EXCEPT !["Market"] = r.queue]
           /\ busLog' = Append(busLog, LogEntry(e, 0, "put"))
    /\ feedSent' = feedSent + 1
    /\ UNCHANGED <<busRun, inflight, placed, audited, stopInflight>>

\* run: the loop takes an event and invokes the first handler of its kind
Dispatch(kind) ==
    /\ busRun = "running"
    /\ DispatchReady(inflight)
    /\ busQueue[kind] # << >>
    /\ LET r == Receive(busQueue[kind])
       IN  /\ busQueue' = [busQueue EXCEPT ![kind] = r.queue]
           /\ inflight' = [active |-> TRUE, ev |-> r.event, h |-> 1,
                           pc |-> "start", todo |-> 0]
           /\ busLog' = Append(busLog, LogEntry(r.event, 1, "start"))
    /\ UNCHANGED <<busRun, feedSent, placed, audited, stopInflight>>

\* on_order_event awaits a broker whose place_order waits for I/O
HandlerAwaitBroker ==
    /\ inflight.active
    /\ inflight.pc = "start"
    /\ inflight.ev.kind = "Order"
    /\ inflight' = [inflight EXCEPT !.pc = "io"]
    /\ UNCHANGED <<busQueue, busRun, feedSent, busLog, placed, audited,
                   stopInflight>>

\* the puts of the invocation in flight, as far as the queue takes them
RECURSIVE PutAll(_, _, _, _)
PutAll(q, log, n, ev) ==
    IF n = 0 THEN [queue |-> q, log |-> log, todo |-> 0]
    ELSE LET e == [id |-> Len(SelectSeq(log, IsPut)) + 1,
                   kind |-> Derived(ev.kind), cause |-> ev.id]
             r == Put(q, e)
         IN  IF r.returned
             THEN PutAll(r.queue, Append(log, LogEntry(e, 0, "put")),
                         n - 1, ev)
             ELSE [queue |-> q, log |-> log, todo |-> n]

\* the invocation in flight goes on to its end or to a put that suspends;
\* n events are still to be put
HandlerAdvance(n) ==
    LET ev == inflight.ev
        dk == Derived(ev.kind)
        q  == IF n > 0 THEN busQueue[dk] ELSE << >>
        r  == PutAll(q, busLog, n, ev)
        more == inflight.h < Len(Handlers(ev.kind))
        ended == Append(r.log, LogEntry(ev, inflight.h, "end"))
    IN  /\ busQueue' = IF n > 0 THEN [busQueue EXCEPT ![dk] = r.queue]
                       ELSE busQueue
        /\ IF r.todo > 0
           THEN /\ inflight' = [inflight EXCEPT !.pc = "put", !.todo = r.todo]
                /\ busLog' = r.log
                /\ UNCHANGED audited
           ELSE /\ audited' = IF ev.kind = "Order" THEN audited \cup {ev.id}
                              ELSE audited
                /\ IF more
                   THEN /\ inflight' = [inflight EXCEPT !.h = @ + 1,
                                           !.pc = "start", !.todo = 0]
                        /\ busLog' = Append(ended,
                                            LogEntry(ev, inflight.h + 1,
                                                     "start"))
                   ELSE /\ inflight' = NoInflight
                        /\ busLog' = ended

\* a handler runs: the first handler of a kind decides what it publishes
\* (for an order: whether the broker filled it)
HandlerBody(n) ==
    /\ inflight.active
    /\ inflight.pc \in {"start", "io"}
    /\ n <= (IF inflight.h = 1 THEN PublishLimit(inflight.ev.kind) ELSE 0)
    /\ Len(PubLog) + n <= MaxEvents
    /\ placed' = IF inflight.ev.kind = "Order"
                 THEN placed \cup {[id |-> inflight.ev.id, filled |-> n > 0]}
                 ELSE placed
    /\ HandlerAdvance(n)
    /\ UNCHANGED <<busRun, feedSent, stopInflight>>

\* main: data_feed_task.cancel(); event_engine_task.cancel()
StopRequest ==
    /\ busRun = "running"
    /\ AtSuspension
    /\ busRun' = "stopping"
    /\ stopInflight' = IF inflight.active THEN inflight.ev.id ELSE 0
    /\ inflight' = InflightAfterStop(inflight)
    /\ UNCHANGED <<busQueue, feedSent, busLog, placed, audited>>

\* main: await event_engine_task returns
StopFinish ==
    /\ busRun = "stopping"
    /\ ~inflight.active
    /\ busRun' = "stopped"
    /\ UNCHANGED <<busQueue, inflight, feedSent, busLog, placed, audited,
                   stopInflight>>

----------------------------------------------------------------------------
(* Specifications                                                          *)

EngineInit == ExecInit /\ TaskInit /\ BusInit /\ dispatched = "none"

EngineIdle == UNCHANGED <<engineVars, dispatched>>

Init ==
    /\ LedgerInit /\ BrokerInit /\ RiskInit /\ AdapterInit /\ ManagerInit
    /\ EngineInit
    /\ slippage_percent = 0
    /\ is_enhanced = FALSE

RiskSpecInit ==
    /\ LedgerInit /\ BrokerInit /\ RiskInit /\ AdapterInit /\ ManagerInit
    /\ EngineInit
    /\ is_enhanced = FALSE

RiskNext ==
    \/ \E req \in RiskOrders, d \in BOOLEAN :
          PlaceOrder(req, d) /\ LedgerIdle /\ AdapterIdle /\ ManagerIdle
                             /\ EngineIdle /\ UNCHANGED riskResult
    \/ \E call \in RiskCalls, f \in QueryFailures :
          ValidateOrderCall(call, f) /\ LedgerIdle /\ AdapterIdle
                                     /\ ManagerIdle /\ EngineIdle

SpecRisk == RiskSpecInit /\ [][RiskNext]_vars

RateInit ==
    /\ LedgerInit /\ BrokerInit /\ RiskInit /\ AdapterInit /\ ManagerInit
    /\ EngineInit
    /\ slippage_percent = 0

RateIdle == LedgerIdle /\ BrokerIdle /\ ManagerIdle /\ EngineIdle

RateNext ==
    \/ \E ev \in RateSignals : OnSignalEvent(ev, CalmState, "none") /\ RateIdle
    \/ OnMarketEvent("X") /\ RateIdle
    \/ TickMinute /\ RateIdle /\ UNCHANGED riskResult

SpecRate == RateInit /\ [][RateNext]_vars

\* signals for the validation and the portfolio gate: three well-formed
\* ones (30% of CalmState's exposure, just above it, and the largest
\* accepted quantity) and one for each reason _validate_signal gives
GateSignal(instrument_token, signal_type, quantity) ==
    [instrument_token |-> instrument_token, signal_type |-> signal_type,
     quantity |-> quantity, price |-> 100 * CurrencyScale,
     order_type |-> "MARKET", tag |-> "t"]

GateSignals ==
    {GateSignal("X", "BUY", 3), GateSignal("X", "BUY", 4),
     GateSignal("X", "SELL", MaxSignalQuantity),
     GateSignal("", "BUY", 3), GateSignal("X", "HOLD", 3),
     GateSignal("X", "", 3), GateSignal("X", "BUY", 0),
     GateSignal("X", "SELL", MaxSignalQuantity + 1)}

\* get_strategy_state() results: inside both limits, no exposure at all,
\* drawdown at the limit and drawdown beyond it
GateStates ==
    {CalmState,
     [positions |-> << >>, max_drawdown |-> 0],
     [positions |-> <<[quantity |-> -10, avg_price |-> 100 * CurrencyScale]>>,
      max_drawdown |-> -15],
     [positions |-> <<[quantity |-> 10, avg_price |-> 100 * CurrencyScale]>>,
      max_drawdown |-> -16]}

SignalNext ==
    \/ \E ev \in GateSignals, st \in GateStates, f \in {"none", "funds"} :
          /\ Len(signal_history) < MaxGateSignals
          /\ OnSignalEvent(ev, st, f) /\ RateIdle
    \/ TickMinute /\ RateIdle /\ UNCHANGED riskResult

SpecSignal == RateInit /\ [][SignalNext]_vars

OthersIdle ==
    /\ LedgerIdle /\ BrokerIdle /\ AdapterIdle /\ EngineIdle
    /\ UNCHANGED riskResult

\* a manager call that leaves the route_market_event in progress where it is
ManagerIdleRest ==
    /\ OthersIdle
    /\ UNCHANGED routing

ManagerNext ==
    \/ \E c \in BOOLEAN, i \in BOOLEAN :
          AddStrategy(c, i)
          /\ ManagerIdleRest /\ TrackTerminal /\ StampHeartbeat
    \/ \E id \in StrategyIds :
          RemoveStrategy(id)
          /\ ManagerIdleRest /\ TrackTerminal /\ StampHeartbeat
    \/ \E id \in StrategyIds :
          PauseStrategy(id)
          /\ ManagerIdleRest /\ TrackTerminal /\ StampHeartbeat
    \/ \E id \in StrategyIds :
          ResumeStrategy(id)
          /\ ManagerIdleRest /\ TrackTerminal /\ StampHeartbeat
    \/ \E t \in {0} \cup StrategyIds,
          o \in [StrategyIds -> {"ok", "raise"}] :
          RouteMarketEvent(t, o)
          /\ ManagerIdleRest /\ TrackTerminal /\ StampHeartbeat

SpecManager == Init /\ [][ManagerNext]_vars

\* route_market_event is entered: the loop over self.strategies.items()
\* starts at the first identifier
RouteStart(target) ==
    /\ ~routing.active
    /\ routing' = [active |-> TRUE, target |-> target, at |-> 1, waiting |-> 0]
    /\ managerOp' = [NoRoute EXCEPT !.op = "routing"]
    /\ UNCHANGED <<strategies, strategy_queues, strategy_events, nextId,
                   consec>>

\* the instances the call in progress has still to decide about
Selected(id) ==
    /\ id \in DOMAIN strategies
    /\ strategies[id].status = "RUNNING"
    /\ routing.target \in {0, id}

\* one turn of the loop: an instance that is not selected is passed over;
\* for a selected one `await self._send_event_to_strategy(sid, event)` runs
\* its handle_market_event, which returns ("ok"), raises ("raise") or
\* suspends at an await of its own ("suspend"); the loop ends after the
\* last identifier
RouteStep(outcome) ==
    /\ routing.active /\ routing.waiting = 0
    /\ IF routing.at > MaxIds
       THEN /\ routing' = NotRouting
            /\ UNCHANGED strategies
       ELSE IF ~Selected(routing.at)
       THEN /\ routing' = [routing EXCEPT !.at = @ + 1]
            /\ UNCHANGED strategies
       ELSE IF outcome = "suspend"
       THEN /\ routing' = [routing EXCEPT !.waiting = routing.at]
            /\ UNCHANGED strategies
       ELSE /\ routing' = [routing EXCEPT !.at = @ + 1]
            /\ strategies' =
                  [strategies EXCEPT
                     ![routing.at] = SendEventToStrategy(@, outcome)]
    /\ managerOp' = [NoRoute EXCEPT !.op = "routing"]
    /\ UNCHANGED <<strategy_queues, strategy_events, nextId, consec>>

\* the suspended handler is resumed and returns or raises; the loop goes on
RouteResume(outcome) ==
    /\ routing.active /\ routing.waiting # 0
    /\ routing' = [routing EXCEPT !.waiting = 0, !.at = @ + 1]
    /\ strategies' =
          [strategies EXCEPT
             ![routing.waiting] = SendEventToStrategy(@, outcome)]
    /\ managerOp' = [NoRoute EXCEPT !.op = "routing"]
    /\ UNCHANGED <<strategy_queues, strategy_events, nextId, consec>>

RouteFrame == OthersIdle /\ TrackTerminal /\ StampHeartbeat

RouteNext ==
    \/ AddStrategy(TRUE, TRUE) /\ ManagerIdleRest /\ TrackTerminal
                               /\ StampHeartbeat /\ ~routing.active
    \/ \E id \in StrategyIds :
          PauseStrategy(id) /\ ManagerIdleRest /\ TrackTerminal
                            /\ StampHeartbeat
    \/ \E t \in {0} \cup StrategyIds : RouteStart(t) /\ RouteFrame
    \/ \E o \in {"ok", "raise", "suspend"} : RouteStep(o) /\ RouteFrame
    \/ \E o \in {"ok", "raise"} : RouteResume(o) /\ RouteFrame

SpecRoute == Init /\ [][RouteNext]_vars

heartbeat_interval == 30

\* the staleness window of _health_monitor, in seconds
StaleSeconds == 300

\* seconds that pass inside _check_strategy_resources: none that a
\* timedelta's seconds would show, or a stall longer than the window
CheckSeconds == {0, StaleSeconds + 1}

\* the loop of _health_monitor over self.strategies.items(), from the
\* identifier `from` on; r holds the instances, their heartbeats and the
\* time t, and every resource check takes `spent` seconds
RECURSIVE HealthFrom(_, _, _)
HealthFrom(r, from, spent) ==
    IF from > MaxIds THEN r
    ELSE IF from \in DOMAIN r.strategies
            /\ r.strategies[from].status = "RUNNING"
    THEN LET beat  == r.t
             after == r.t + spent
             stale == (after - beat) > StaleSeconds
         IN  HealthFrom(
                [strategies |->
                    IF stale
                    THEN [r.strategies EXCEPT
                            ![from].status = "ERROR",
                            ![from].error_count = @ + 1]
                    ELSE r.strategies,
                 heartbeat |-> [r.heartbeat EXCEPT ![from] = beat],
                 t |-> after],
                from + 1, spent)
    ELSE HealthFrom(r, from + 1, spent)

\* one cycle of _health_monitor: the sleep, then the loop
HealthCycle(spent) ==
    /\ manager_now < MaxCycles * heartbeat_interval
    /\ LET r == HealthFrom([strategies |-> strategies,
                            heartbeat |-> last_heartbeat,
                            t |-> manager_now + heartbeat_interval],
                           1, spent)
       IN  /\ strategies' = r.strategies
           /\ last_heartbeat' = r.heartbeat
           /\ manager_now' = r.t
    /\ managerOp' = [NoRoute EXCEPT !.op = "health"]
    /\ UNCHANGED <<strategy_queues, strategy_events, nextId, consec>>

HealthNext ==
    \/ AddStrategy(TRUE, TRUE)
          /\ ManagerIdleRest /\ TrackTerminal /\ StampHeartbeat
    \/ \E id \in StrategyIds :
          PauseStrategy(id)
          /\ ManagerIdleRest /\ TrackTerminal /\ StampHeartbeat
    \/ \E id \in StrategyIds :
          ResumeStrategy(id)
          /\ ManagerIdleRest /\ TrackTerminal /\ StampHeartbeat
    \/ \E spent \in CheckSeconds :
          HealthCycle(spent) /\ ManagerIdleRest /\ TrackTerminal

SpecHealth == Init /\ [][HealthNext]_vars

\* add_strategy and remove_strategy with more identifiers than the manager
\* has room for
CapacityNext ==
    \/ \E c \in BOOLEAN, i \in BOOLEAN :
          AddStrategyWithin(c, i, MaxCapIds)
          /\ ManagerIdleRest /\ TrackTerminal /\ StampHeartbeat
    \/ \E id \in 1..MaxCapIds :
          RemoveStrategy(id)
          /\ ManagerIdleRest /\ TrackTerminal /\ StampHeartbeat
    \/ \E id \in 1..MaxCapIds :
          PauseStrategy(id)
          /\ ManagerIdleRest /\ TrackTerminal /\ StampHeartbeat

SpecCapacity == Init /\ [][CapacityNext]_vars

Others ==
    /\ BrokerIdle /\ AdapterIdle /\ ManagerIdle /\ EngineIdle
    /\ UNCHANGED riskResult

LedgerNext ==
    \E ev \in FillEvents, o \in SaveOutcomes : OnFillEvent(ev, o) /\ Others

SpecLedger == Init /\ [][LedgerNext]_vars

\* fills used where restarts multiply the histories
PersistFills ==
    [instrument_token : {"X"}, transaction_type : {"BUY", "SELL"},
     quantity : Quantities, price : {100}, brokerage : {20}]
    \cup
    [instrument_token : {"Y"}, transaction_type : {"BUY", "buy"},
     quantity : {100}, price : {110}, brokerage : {0}]

PersistNext ==
    \/ \E ev \in PersistFills, o \in SaveOutcomes : OnFillEvent(ev, o) /\ Others
    \/ Restart /\ Others
    \/ OtherLedgerSave /\ Others

SpecPersist == Init /\ [][PersistNext]_vars

ExecIdleRest ==
    /\ LedgerIdle /\ AdapterIdle /\ ManagerIdle
    /\ UNCHANGED <<riskResult, fillTasks, busVars, dispatched>>

ExecNext ==
    \/ \E c \in ExecCalls :
          OnOrderEvent(c.event, c.drawOk, c.outcome) /\ ExecIdleRest
    \/ \E id \in OrderIds :
          CancelOrder(id) /\ ExecIdleRest
                          /\ UNCHANGED <<all_orders, fill_events>>
    \/ \E kw \in ModifyKwargs :
          ModifyOrder(kw) /\ ExecIdleRest
                          /\ UNCHANGED <<all_orders, fill_events>>

SpecExec == Init /\ [][ExecNext]_vars

\* place_order arguments that spend the funds to the last hundredth and then
\* sell for less than the brokerage, and a LIMIT order that stays open
FundsOrders ==
    {[instrument_token |-> "X", transaction_type |-> "BUY",
      quantity |-> 49999, order_type |-> "MARKET",
      price |-> 20 * CurrencyScale, tag |-> "t"],
     [instrument_token |-> "X", transaction_type |-> "SELL", quantity |-> 1,
      order_type |-> "MARKET", price |-> BrokerageFee - 1, tag |-> "t"],
     [instrument_token |-> "X", transaction_type |-> "BUY", quantity |-> 1,
      order_type |-> "LIMIT", price |-> 60 * CurrencyScale, tag |-> "t"]}

\* the broker called directly: place_order, cancel_order, modify_order
FundsNext ==
    \/ \E req \in FundsOrders, d \in BOOLEAN :
          PlaceOrder(req, d) /\ ExecIdleRest
                             /\ UNCHANGED <<all_orders, fill_events, brokerRet>>
    \/ \E id \in OrderIds :
          CancelOrder(id) /\ ExecIdleRest
                          /\ UNCHANGED <<all_orders, fill_events>>
    \/ \E kw \in ModifyKwargs :
          ModifyOrder(kw) /\ ExecIdleRest
                          /\ UNCHANGED <<all_orders, fill_events>>

SpecFunds == Init /\ [][FundsNext]_vars

TasksIdleRest ==
    /\ BrokerIdle /\ AdapterIdle /\ ManagerIdle
    /\ UNCHANGED <<riskResult, execVars, busVars, dispatched>>

TasksNext ==
    \/ \E t \in TaskIds, ev \in TaskFills : StartFill(t, ev) /\ TasksIdleRest
    \/ \E t \in TaskIds : ResumeFill(t) /\ TasksIdleRest

SpecTasks == Init /\ [][TasksNext]_vars

BusIdleRest ==
    /\ LedgerIdle /\ BrokerIdle /\ AdapterIdle /\ ManagerIdle
    /\ UNCHANGED <<riskResult, execVars, fillTasks, dispatched>>

BusNext ==
    \/ FeedPut /\ BusIdleRest
    \/ \E k \in EventKinds : Dispatch(k) /\ BusIdleRest
    \/ HandlerAwaitBroker /\ BusIdleRest
    \/ \E n \in 0..2 : HandlerBody(n) /\ BusIdleRest
    \/ StopRequest /\ BusIdleRest
    \/ StopFinish /\ BusIdleRest

SpecBus == Init /\ [][BusNext]_vars

\* the event loop runs every coroutine that is ready: the dispatch loop
\* when it can take an event, the handler in flight when it can go on; the
\* data feed and the shutdown are up to the environment
BusFairness ==
    /\ WF_vars(\E k \in EventKinds : Dispatch(k) /\ BusIdleRest)
    /\ WF_vars(HandlerAwaitBroker /\ BusIdleRest)
    /\ WF_vars(\E n \in 0..2 : HandlerBody(n) /\ BusIdleRest)

SpecBusLive == Init /\ [][BusNext]_vars /\ BusFairness

\* the events handed to the handlers where all of them run on one ledger
FrameFills == {ev \in TaskFills : ev.instrument_token = "X"}

FrameSignal ==
    [instrument_token |-> "X", signal_type |-> "BUY", quantity |-> 1,
     price |-> 100 * CurrencyScale, order_type |-> "MARKET", tag |-> "t"]

\* one handler of an event of the given kind runs to its end
RunHandler(kind, handler) ==
    /\ dispatched' = kind
    /\ CASE handler = "strategy_adapter.on_market_event" ->
              /\ OnMarketEvent("X")
              /\ LedgerIdle /\ BrokerIdle /\ ManagerIdle
              /\ UNCHANGED engineVars
         [] handler = "strategy_adapter.on_signal_event" ->
              /\ Len(signal_history) < MaxGateSignals
              /\ OnSignalEvent(FrameSignal, CalmState, "none")
              /\ LedgerIdle /\ BrokerIdle /\ ManagerIdle
              /\ UNCHANGED engineVars
         [] handler = "trade_executor.on_order_event" ->
              /\ OnOrderEvent(SmallBuy, TRUE, "ok")
              /\ LedgerIdle /\ AdapterIdle /\ ManagerIdle
              /\ UNCHANGED <<riskResult, fillTasks, busVars>>
         [] handler = "portfolio_manager.on_fill_event" ->
              /\ \E ev \in FrameFills : OnFillEvent(ev, "ok")
              /\ BrokerIdle /\ AdapterIdle /\ ManagerIdle
              /\ UNCHANGED <<riskResult, engineVars>>
         [] OTHER ->
              \* strategy_adapter.on_fill_event: strategy bookkeeping only
              /\ LedgerIdle /\ BrokerIdle /\ AdapterIdle /\ ManagerIdle
              /\ UNCHANGED <<riskResult, engineVars>>

\* generate_performance_report and log_current_state read the ledger
GenerateReport ==
    /\ dispatched' = "report"
    /\ LedgerIdle /\ BrokerIdle /\ AdapterIdle /\ ManagerIdle
    /\ UNCHANGED <<riskResult, engineVars>>

FrameNext ==
    \/ \E kind \in EventKinds :
          \E i \in DOMAIN Handlers(kind) : RunHandler(kind, Handlers(kind)[i])
    \/ GenerateReport

SpecFrame == Init /\ [][FrameNext]_vars

----------------------------------------------------------------------------
(* History operators over fillLog                                          *)

Signed(ev) ==
    IF ev.transaction_type = "BUY" THEN ev.quantity
    ELSE IF ev.transaction_type = "SELL" THEN 0 - ev.quantity
    ELSE 0

\* signed sum of the fills of inst among log[lo..hi]
RECURSIVE SignedSum(_, _, _, _)
SignedSum(log, inst, lo, hi) ==
    IF hi < lo THEN 0
    ELSE SignedSum(log, inst, lo, hi - 1)
         + (IF log[hi].instrument_token = inst THEN Signed(log[hi]) ELSE 0)

\* notional of the BUY fills of inst among log[lo..hi]
RECURSIVE BuyNotional(_, _, _, _)
BuyNotional(log, inst, lo, hi) ==
    IF hi < lo THEN 0
    ELSE BuyNotional(log, inst, lo, hi - 1)
         + (IF log[hi].instrument_token = inst /\ log[hi].transaction_type = "BUY"
            THEN log[hi].quantity * log[hi].price ELSE 0)

\* the last point of the log at which inst was flat (0 = before any fill)
LastFlat(log, inst) ==
    CHOOSE k \in 0..Len(log) :
        /\ SignedSum(log, inst, 1, k) = 0
        /\ \A j \in (k + 1)..Len(log) : SignedSum(log, inst, 1, j) # 0

\* the fills of inst since it was last flat
SinceFlat(log, inst) ==
    {i \in (LastFlat(log, inst) + 1)..Len(log) : log[i].instrument_token = inst}

LastFill == fillLog[Len(fillLog)]

FillStep == Len(fillLog') = Len(fillLog) + 1

NewFill == fillLog'[Len(fillLog')]

----------------------------------------------------------------------------
(* C1: a BUY fill of q at p with brokerage b leaves                       *)
(* cash_after = cash_before - q*p - b, a SELL fill leaves                 *)
(* cash_after = cash_before + q*p - b.                                    *)
C1_CashDelta ==
    [][FillStep =>
         /\ NewFill.transaction_type = "BUY" =>
              current_cash' = current_cash - NewFill.quantity * NewFill.price
                                           - NewFill.brokerage
         /\ NewFill.transaction_type = "SELL" =>
              current_cash' = current_cash + NewFill.quantity * NewFill.price
                                           - NewFill.brokerage]_vars

C1_Witness ==
    /\ Len(fillLog) = 2
    /\ fillLog[1].transaction_type = "SELL" /\ fillLog[1].brokerage = 20
    /\ fillLog[2].transaction_type = "BUY" /\ fillLog[2].brokerage = 20
    /\ current_cash = InitialCash
                        + fillLog[1].quantity * fillLog[1].price - 20
                        - fillLog[2].quantity * fillLog[2].price - 20

(* C2: the stored quantity of every instrument is the signed sum of the    *)
(* fill quantities applied since the position was last at zero; an absent  *)
(* position counts as zero.                                                *)
C2_SignedSum ==
    \A inst \in Instruments :
        Qty(positions, inst) =
            SignedSum(fillLog, inst, LastFlat(fillLog, inst) + 1, Len(fillLog))

C2_Witness ==
    /\ Len(fillLog) = 3
    /\ LastFlat(fillLog, "X") = 2
    /\ fillLog[3].instrument_token = "X"
    /\ fillLog[3].transaction_type = "SELL"
    /\ Qty(positions, "X") = 0 - fillLog[3].quantity

(* C3: the position map never holds an entry whose quantity is zero.       *)
C3_NoZeroEntry ==
    \A inst \in DOMAIN positions : positions[inst].quantity # 0

C3_Witness ==
    /\ Len(fillLog) >= 2
    /\ LastFill.instrument_token = "X"
    /\ LastFill.transaction_type \in {"BUY", "SELL"}
    /\ SignedSum(fillLog, "X", 1, Len(fillLog)) = 0
    /\ "X" \notin DOMAIN positions
    /\ "Y" \in DOMAIN positions

(* C4: a position built from flat by BUY fills only has the volume-weighted *)
(* average (sum of q*p)/(sum of q) of those fills as its average price, and *)
(* every BUY fill (q,p) on a long position sets                            *)
(* newAvg = (oldQty*oldAvg + q*p)/(oldQty+q).                              *)
C4_Vwap ==
    [][FillStep =>
         /\ \A inst \in DOMAIN positions' :
              (\A i \in SinceFlat(fillLog', inst) :
                    fillLog'[i].transaction_type # "SELL")
              => positions'[inst].avg_price.num * positions'[inst].quantity
                   = BuyNotional(fillLog', inst, 1 + LastFlat(fillLog', inst),
                                 Len(fillLog'))
                     * positions'[inst].avg_price.den
         /\ LET t == NewFill.instrument_token
            IN  (NewFill.transaction_type = "BUY" /\ Qty(positions, t) > 0)
                => positions'[t].avg_price.num
                     * (positions[t].quantity + NewFill.quantity)
                     * positions[t].avg_price.den
                   = (positions[t].quantity * positions[t].avg_price.num
                        + NewFill.quantity * NewFill.price
                            * positions[t].avg_price.den)
                     * positions'[t].avg_price.den]_vars

C4_Witness ==
    /\ Len(fillLog) = 2
    /\ fillLog[1] = [instrument_token |-> "X", transaction_type |-> "BUY",
                     quantity |-> 50, price |-> 100, brokerage |-> 20]
    /\ fillLog[2] = [instrument_token |-> "X", transaction_type |-> "BUY",
                     quantity |-> 100, price |-> 110, brokerage |-> 20]
    /\ positions["X"].quantity = 150
    /\ positions["X"].avg_price = [num |-> 320, den |-> 3]

(* C5: from cash C and no position in X, a BUY of q at p1 followed by a    *)
(* SELL of q at p2, both with brokerage b, leaves no entry for X and       *)
(* cash = C - q*p1 - b + q*p2 - b; with C = 100000, q = 100, p1 = 100,     *)
(* p2 = 110, b = 20 the cash is 89980 and the position {100, 100} after    *)
(* the BUY, then 100960 and no position.                                   *)
ScenarioBuy  == [instrument_token |-> "X", transaction_type |-> "BUY",
                 quantity |-> 100, price |-> 100, brokerage |-> 20]
ScenarioSell == [instrument_token |-> "X", transaction_type |-> "SELL",
                 quantity |-> 100, price |-> 110, brokerage |-> 20]

C5_RoundTrip ==
    /\ fillLog = <<ScenarioBuy>> =>
          /\ current_cash = 89980
          /\ DOMAIN positions = {"X"}
          /\ positions["X"].quantity = 100
          /\ positions["X"].avg_price = FracOfInt(100)
    /\ fillLog = <<ScenarioBuy, ScenarioSell>> =>
          /\ current_cash = 100960
          /\ positions = EmptyMap
    /\ \A inst \in Instruments :
          LET n == Len(fillLog) IN
          (/\ n >= 2
           /\ fillLog[n - 1].instrument_token = inst
           /\ fillLog[n].instrument_token = inst
           /\ fillLog[n - 1].transaction_type = "BUY"
           /\ fillLog[n].transaction_type = "SELL"
           /\ fillLog[n - 1].quantity = fillLog[n].quantity
           /\ fillLog[n - 1].brokerage = fillLog[n].brokerage
           /\ SignedSum(fillLog, inst, 1, n - 2) = 0)
          => /\ inst \notin DOMAIN positions
             /\ current_cash =
                  equity_curve[n - 1].cash
                    - fillLog[n].quantity * fillLog[n - 1].price
                    - fillLog[n].brokerage
                    + fillLog[n].quantity * fillLog[n].price
                    - fillLog[n].brokerage

C5_Witness ==
    /\ fillLog = <<ScenarioBuy, ScenarioSell>>
    /\ current_cash = 100960
    /\ "X" \notin DOMAIN positions

(* C10: when the latest save succeeded (or nothing was ever saved),        *)
(* constructing a new ledger with the same identity over the file yields   *)
(* the cash and the position map the ledger held before the restart.       *)
C10_SaveLoad ==
    [][(ledgerOp' = "restart" /\ lastSave \in {"ok", "none"})
         => /\ current_cash' = current_cash
            /\ positions' = positions]_vars

C10_Witness ==
    /\ ledgerOp = "restart"
    /\ lastSave = "ok"
    /\ Len(fillLog) = 3
    /\ DOMAIN positions = {"X", "Y"}
    /\ positions["X"].quantity = 0 - 50
    /\ current_cash # InitialCash
    /\ StoreKey(OtherId) \in DOMAIN store.data

(* C6: without a query failure validate_order answers                      *)
(* isValid = (funds >= margin + brokerage) for 'entry' and                 *)
(* isValid = (funds >= brokerage) for 'exit'; equality passes.             *)
C6_FundsCheck ==
    (riskResult.called /\ riskResult.failure = "none") =>
        /\ riskResult.call.trade_type = "entry" =>
             riskResult.ret[1] =
                (10 * (riskResult.funds - BrokerageFee)
                    >= riskResult.call.price * riskResult.call.quantity)
        /\ riskResult.call.trade_type = "exit" =>
             riskResult.ret[1] = (riskResult.funds >= BrokerageFee)

C6_Witness ==
    /\ riskResult.called
    /\ riskResult.failure = "none"
    /\ riskResult.call.trade_type = "entry"
    /\ riskResult.call.quantity = 6
    /\ riskResult.funds = 80 * CurrencyScale
    /\ 10 * riskResult.funds
         = riskResult.call.price * riskResult.call.quantity + 10 * BrokerageFee
    /\ riskResult.ret[1]

(* C7: at most max_signals_per_minute signals of one instrument become an  *)
(* OrderEvent within one minute bucket: the 11th is rejected.              *)
C7_RateLimited ==
    \A i \in Instruments : \A m \in Minutes :
        accepted[i][m] <= max_signals_per_minute

(* C8: when a delivery raises and it is the max_errors-th exception in a   *)
(* row for that instance, the instance is in ERROR afterwards; a broadcast *)
(* does not invoke the handler of an instance that is in ERROR.            *)
C8_Quarantine ==
    [][managerOp'.op = "route" =>
         /\ \A id \in managerOp'.raised :
               consec'[id] >= max_errors => strategies'[id].status = "ERROR"
         /\ \A id \in DOMAIN strategies :
               strategies[id].status = "ERROR" => id \notin managerOp'.delivered
      ]_vars

C8_Witness ==
    /\ managerOp.op = "route"
    /\ managerOp.target = 0
    /\ managerOp.delivered = {2}
    /\ 1 \in DOMAIN strategies
    /\ strategies[1].status = "ERROR"
    /\ strategies[1].error_count = max_errors
    /\ consec[1] = max_errors

(* C9: in a broadcast every instance that is RUNNING is handed the event,  *)
(* whichever other handlers raise, and every instance whose own handler    *)
(* did not raise keeps its status and its error counter.                   *)
C9_Isolation ==
    [][(managerOp'.op = "route" /\ managerOp'.target = 0) =>
         /\ \A id \in DOMAIN strategies :
               strategies[id].status = "RUNNING" => id \in managerOp'.delivered
         /\ \A id \in DOMAIN strategies \ managerOp'.raised :
               /\ id \in DOMAIN strategies'
               /\ strategies'[id].status = strategies[id].status
               /\ strategies'[id].error_count = strategies[id].error_count
      ]_vars

C9_Witness ==
    /\ managerOp.op = "route"
    /\ managerOp.target = 0
    /\ managerOp.raised = {1}
    /\ managerOp.delivered = {1, 2}
    /\ strategies[1].status = "ERROR"
    /\ strategies[1].error_count = max_errors
    /\ strategies[2].status = "RUNNING"
    /\ strategies[2].error_count = 0

----------------------------------------------------------------------------
(* History operators over the audit log and the published fills            *)

IsFilled(order_record) == order_record.status = "FILLED"

FilledRecords == SelectSeq(all_orders, IsFilled)

PlaceStep == brokerRet'.op = "place"

(* C16: the executor publishes a Fill for an order exactly when the        *)
(* broker's answer has status FILLED: the published fills are, one for     *)
(* one and in order, the FILLED records of the audit log, each with the    *)
(* order id, instrument, side, filled quantity and filled price of its     *)
(* record; no fill stands for a rejected, pending, unanswered or erroring  *)
(* order, and every fill names an order of the book that was created       *)
(* PENDING and is FILLED.                                                  *)
C16_FillIffFilled ==
    /\ Len(fill_events) = Len(FilledRecords)
    /\ \A i \in 1..Len(fill_events) :
          LET f == fill_events[i]
              r == FilledRecords[i]
          IN  /\ f.order_id = r.order_id
              /\ f.instrument_token = r.instrument_token
              /\ f.transaction_type = r.transaction_type
              /\ f.quantity = r.filled_quantity
              /\ f.price = r.filled_price
              /\ f.order_id \in DOMAIN orders
              /\ orders[f.order_id].status = "FILLED"
              /\ orders[f.order_id].filled_quantity = f.quantity
    /\ \A i, j \in 1..Len(fill_events) :
          fill_events[i].order_id = fill_events[j].order_id => i = j

C16_Witness ==
    /\ Len(all_orders) = 3
    /\ all_orders[1].status = "PENDING"
    /\ all_orders[2].status = "REJECTED"
    /\ all_orders[3].status = "FILLED"
    /\ Len(fill_events) = 1
    /\ fill_events[1].order_id = all_orders[3].order_id
    /\ fill_events[1].quantity = 9999

(* C17: every order handled adds exactly one record to the audit log; the  *)
(* log only grows and keeps the order of its records; when place_order     *)
(* raises, the record has status ERROR, no Fill is published, and the      *)
(* executor goes on handling orders.                                       *)
C17_AuditLog ==
    [][/\ Len(all_orders') >= Len(all_orders)
       /\ SubSeq(all_orders', 1, Len(all_orders)) = all_orders
       /\ PlaceStep => Len(all_orders') = Len(all_orders) + 1
       /\ ~PlaceStep => all_orders' = all_orders
       /\ (PlaceStep /\ brokerRet'.outcome = "raise") =>
             /\ all_orders'[Len(all_orders')].status = "ERROR"
             /\ fill_events' = fill_events
      ]_vars

C17_Witness ==
    /\ Len(all_orders) = 3
    /\ all_orders[1].status = "ERROR"
    /\ all_orders[2].status = "FAILED"
    /\ all_orders[3].status = "FILLED"
    /\ Len(fill_events) = 1
    /\ brokerRet.op = "place"
    /\ brokerRet.outcome = "ok"

(* C18: a MARKET BUY that passes the fill draw is FILLED only if the funds *)
(* are at least quantity * fill price + brokerage; the funds then go down  *)
(* by exactly that amount and the whole quantity is filled; otherwise the  *)
(* order is REJECTED, the funds are unchanged and no trade is recorded.    *)
C18_BuyFunds ==
    [][(/\ PlaceStep
        /\ brokerRet'.outcome = "ok"
        /\ brokerRet'.drawOk
        /\ brokerRet'.event.order_type = "MARKET"
        /\ brokerRet'.event.transaction_type = "BUY") =>
          LET ev   == brokerRet'.event
              id   == NewOrderId
              cost == ev.quantity
                        * FillPrice("BUY", ev.price, slippage_percent)
                      + BrokerageFee
          IN  /\ id \in DOMAIN orders'
              /\ IF current_funds >= cost
                 THEN /\ orders'[id].status = "FILLED"
                      /\ orders'[id].filled_quantity = ev.quantity
                      /\ current_funds' = current_funds - cost
                      /\ Len(trades') = Len(trades) + 1
                 ELSE /\ orders'[id].status = "REJECTED"
                      /\ current_funds' = current_funds
                      /\ trades' = trades
      ]_vars

C18_Witness ==
    /\ DOMAIN orders = {1, 2, 3}
    /\ orders[1].status = "FILLED" /\ orders[1].quantity = 9999
    /\ orders[2].status = "REJECTED" /\ orders[2].price = 60 * CurrencyScale + 1
    /\ orders[3].status = "FILLED" /\ orders[3].price = 60 * CurrencyScale
    /\ current_funds = 0
    /\ Len(trades) = 2
    /\ brokerRet.op = "place" /\ brokerRet.drawOk

C14_FillAtomic ==
    /\ current_cash = ReplayCash(fillLog, InitialCash)
    /\ positions = ReplayPositions(fillLog, EmptyMap)

C14_Witness ==
    /\ Len(fillLog) = 2
    /\ fillTasks[1].pc \in DOMAIN FillSteps
    /\ FillSteps[fillTasks[1].pc] = "snapshot"
    /\ fillTasks[1].ev = fillLog[1]
    /\ fillTasks[2].pc = TaskDone
    /\ fillTasks[2].ev = fillLog[2]
    /\ fillLog[1].instrument_token = "X" /\ fillLog[1].transaction_type = "BUY"
    /\ fillLog[2].instrument_token = "X" /\ fillLog[2].transaction_type = "SELL"
    /\ Qty(positions, "X") = 50
    /\ Len(equity_curve) = 2

\* the status changes of a StrategyInstance the state machine allows
AllowedTransitions ==
    {<<"INITIALIZING", "RUNNING">>, <<"INITIALIZING", "ERROR">>,
     <<"RUNNING", "PAUSED">>, <<"RUNNING", "STOPPED">>,
     <<"RUNNING", "ERROR">>, <<"PAUSED", "RUNNING">>}

(* C20: every change of a StrategyInstance's status is one of              *)
(* INITIALIZING -> RUNNING, INITIALIZING -> ERROR, RUNNING -> PAUSED,      *)
(* RUNNING -> STOPPED, RUNNING -> ERROR, PAUSED -> RUNNING; an instance    *)
(* that appears has left INITIALIZING for RUNNING or ERROR.                *)
C20_Transitions ==
    [][/\ \A id \in DOMAIN strategies \cap DOMAIN strategies' :
             \/ strategies'[id].status = strategies[id].status
             \/ <<strategies[id].status, strategies'[id].status>>
                   \in AllowedTransitions
       /\ \A id \in DOMAIN strategies' \ DOMAIN strategies :
             <<NewInstance(id).status, strategies'[id].status>>
                \in AllowedTransitions
      ]_vars

----------------------------------------------------------------------------
(* History operators over busLog                                           *)

\* the positions of busLog
LogPos == 1..Len(busLog)

\* the put, start and end entries of the events of one kind
PutsOf(kind) ==
    SelectSeq(busLog, LAMBDA x : x.phase = "put" /\ x.kind = kind)

RunsOf(kind) ==
    SelectSeq(busLog, LAMBDA x : x.phase # "put" /\ x.kind = kind)

\* start and end of handler h and of those registered after it
RECURSIVE HandlerRuns(_, _)
HandlerRuns(e, h) ==
    IF h > Len(Handlers(e.kind)) THEN << >>
    ELSE <<LogEntry(e, h, "start"), LogEntry(e, h, "end")>>
         \o HandlerRuns(e, h + 1)

\* what a loop that takes the events in the order of their puts and awaits
\* every handler writes to the log
RECURSIVE SerialRuns(_)
SerialRuns(puts) ==
    IF puts = << >> THEN << >>
    ELSE HandlerRuns(Head(puts), 1) \o SerialRuns(Tail(puts))

IsPrefix(a, b) == Len(a) <= Len(b) /\ a = SubSeq(b, 1, Len(a))

Published == {busLog[i] : i \in {j \in LogPos : busLog[j].phase = "put"}}

Queued(e) ==
    Cardinality({i \in DOMAIN busQueue[e.kind] : busQueue[e.kind][i].id = e.id})

Count(id, h, phase) ==
    Cardinality({i \in LogPos : /\ busLog[i].id = id /\ busLog[i].h = h
                                /\ busLog[i].phase = phase})

(* C11: the events of one kind go to the handlers registered for the kind  *)
(* in the order of their puts, and every handler of one event has been     *)
(* invoked, in registration order, and has returned before a handler of    *)
(* the next event of that kind is invoked.                                 *)
C11_FifoDispatch ==
    \A kind \in EventKinds :
        IsPrefix(RunsOf(kind), SerialRuns(PutsOf(kind)))

C11_Witness ==
    /\ Len(PutsOf("Signal")) = 2
    /\ PutsOf("Signal")[1].cause = PutsOf("Signal")[2].cause
    /\ Len(RunsOf("Signal")) = 4
    /\ Len(RunsOf("Fill")) = 4
    /\ ~inflight.active
    /\ busRun = "running"

(* C12: a put on a full queue keeps the publisher waiting and drops        *)
(* nothing: no queue is ever longer than its capacity, every event whose   *)
(* put returned is either still in the queue of its kind, once, or has     *)
(* been taken from it, once, and while the bus runs and no invocation is   *)
(* in flight every event taken has been handed exactly once to every       *)
(* handler registered for its kind.                                        *)
C12_Backpressure ==
    /\ \A kind \in EventKinds :
          /\ Len(busQueue[kind]) <= queue_maxsize
          /\ \A i \in DOMAIN busQueue[kind] : 
                \E e \in Published : /\ e.id = busQueue[kind][i].id
                                     /\ e.kind = kind
    /\ \A e \in Published :
          /\ Queued(e) + Count(e.id, 1, "start") = 1
          /\ \A h \in DOMAIN Handlers(e.kind) :
                /\ Count(e.id, h, "start") <= 1
                /\ Count(e.id, h, "end") <= Count(e.id, h, "start")
                /\ (busRun = "running" /\ ~inflight.active /\ Queued(e) = 0)
                      => Count(e.id, h, "end") = 1

C12_Witness ==
    /\ Len(busLog) >= 4
    /\ busLog[1].phase = "put" /\ busLog[1].kind = "Market"
    /\ busLog[2].phase = "put" /\ busLog[2].kind = "Market"
    /\ busLog[3].phase = "start"
    /\ feedSent = 3
    /\ \A kind \in EventKinds : busQueue[kind] = << >>
    /\ ~inflight.active
    /\ busRun = "running"
    /\ Len(PutsOf("Market")) = 3
    /\ Len(RunsOf("Market")) = 6

(* C13: a derived event (a Signal of a MarketTick, an Order of a Signal, a *)
(* Fill of an Order) is handed to no handler before every handler of the   *)
(* event that caused it has returned.                                      *)
C13_CauseFirst ==
    \A j \in LogPos :
        (busLog[j].phase = "start" /\ busLog[j].cause # 0) =>
            \A c \in Published :
                c.id = busLog[j].cause =>
                    \A h \in DOMAIN Handlers(c.kind) :
                        \E i \in 1..(j - 1) :
                            /\ busLog[i].id = c.id
                            /\ busLog[i].h = h
                            /\ busLog[i].phase = "end"

C13_Witness ==
    /\ inflight.active
    /\ inflight.pc = "put"
    /\ inflight.ev.kind = "Market"
    /\ \E i \in DOMAIN busQueue["Signal"] :
          busQueue["Signal"][i].cause = inflight.ev.id
    /\ \E j \in LogPos : busLog[j].phase = "start" /\ busLog[j].kind = "Signal"

C21_TerminalNoRouting ==
    [][managerOp'.op = "route" =>
          managerOp'.delivered \cap everTerminal = {}]_vars

(* C22: route_market_event without a strategy id invokes                   *)
(* handle_market_event on each instance that is RUNNING and on no other    *)
(* instance; with a strategy id it invokes that instance only, and only    *)
(* if it is registered and RUNNING.                                        *)
C22_RouteTargets ==
    [][managerOp'.op = "route" =>
          LET running == {id \in DOMAIN strategies :
                             strategies[id].status = "RUNNING"}
              target  == managerOp'.target
          IN  managerOp'.delivered =
                  IF target = 0 THEN running ELSE running \cap {target}
      ]_vars

C22_Witness ==
    /\ managerOp.op = "route"
    /\ managerOp.target = 0
    /\ managerOp.delivered = {2}
    /\ managerOp.raised = {}
    /\ DOMAIN strategies = {1, 2}
    /\ strategies[1].status = "PAUSED"
    /\ strategies[2].status = "RUNNING"

(* C23: the number of registered instances never exceeds                   *)
(* max_concurrent_strategies, however add_strategy and remove_strategy     *)
(* follow each other; add_strategy called at capacity raises and registers *)
(* neither an instance nor a queue.                                        *)
C23_Capacity ==
    [][/\ Cardinality(DOMAIN strategies') <= max_concurrent_strategies
       /\ Cardinality(strategy_queues') <= max_concurrent_strategies
       /\ (/\ managerOp'.op \in {"add", "add_refused"}
           /\ Cardinality(DOMAIN strategies) >= max_concurrent_strategies) =>
             /\ managerOp'.op = "add_refused"
             /\ strategies' = strategies
             /\ strategy_queues' = strategy_queues
      ]_vars

C23_Witness ==
    /\ managerOp.op = "add_refused"
    /\ DOMAIN strategies = {2, 3}
    /\ strategy_queues = {2, 3}
    /\ nextId = 4

----------------------------------------------------------------------------
(* Signal validation, portfolio gate and order tags                        *)

\* the signals the validation is stated to reject
Malformed(event) ==
    \/ event.instrument_token = ""
    \/ event.signal_type \notin {"BUY", "SELL"}
    \/ event.quantity <= 0
    \/ event.quantity > 10000

\* the handler consulted the RiskManager for this signal in this step
Consulted == adapterOp'.outcome \in {"rejected", "order"}

\* C24: a signal with an empty instrument id, a side outside {BUY, SELL}, a
\* quantity <= 0 or a quantity above 10000 is rejected by the signal handler:
\* the signal history, the RiskManager's last call and the published orders
\* stay as they were, and the handler goes on to process later signals
C24_InvalidRejected ==
    [][(adapterOp'.op = "signal" /\ Malformed(adapterOp'.event))
          => /\ adapterOp'.outcome = "invalid"
             /\ UNCHANGED <<signal_history, riskResult, order_events,
                            accepted>>]_vars

\* a quantity one above the limit was handed over after a well-formed signal
\* had become an order, and nothing was added for it
C24_Witness ==
    /\ adapterOp.op = "signal"
    /\ adapterOp.outcome = "invalid"
    /\ adapterOp.event.quantity = MaxSignalQuantity + 1
    /\ Len(signal_history) = 1
    /\ Len(order_events) = 1
    /\ riskResult.called
    /\ riskResult.call.quantity = 3

\* C25: for a strategy exposing extended state, a valid signal is dropped
\* before risk validation (RiskManager not called, no order published)
\* whenever quantity * price exceeds 30% of the sum of |quantity * avg_price|
\* over the strategy's positions, a zero sum included, or whenever the
\* reported drawdown exceeds 15%; otherwise the RiskManager is called with
\* the signal
C25_PortfolioGate ==
    [][(adapterOp'.op = "signal" /\ is_enhanced
          /\ ~Malformed(adapterOp'.event))
          => LET ev       == adapterOp'.event
                 st       == adapterOp'.state
                 exposure == TotalExposure(st.positions)
                 exceeds  ==
                     \/ 10 * (ev.quantity * ev.price) > 3 * exposure
                     \/ Abs(st.max_drawdown) > 15
             IN  IF exceeds
                 THEN /\ ~Consulted
                      /\ UNCHANGED <<riskResult, order_events, accepted>>
                 ELSE /\ Consulted
                      /\ riskResult'.called
                      /\ riskResult'.call = RiskCallOf(ev)]_vars

\* an enhanced strategy without any exposure had its first signal dropped
\* by the gate: recorded, but neither validated nor turned into an order
C25_Witness ==
    /\ is_enhanced
    /\ adapterOp.op = "signal"
    /\ adapterOp.outcome = "gated"
    /\ adapterOp.state.positions = << >>
    /\ adapterOp.event.quantity = 3
    /\ Len(signal_history) = 1
    /\ ~riskResult.called
    /\ order_events = << >>

\* an enhanced strategy's signal at exactly 30% of the exposure, with the
\* drawdown at exactly 15%, went on to the RiskManager and became an order
C25_WitnessPass ==
    /\ is_enhanced
    /\ adapterOp.op = "signal"
    /\ adapterOp.outcome = "order"
    /\ adapterOp.state.max_drawdown = -15
    /\ adapterOp.event.quantity = 3
    /\ Len(order_events) = 1

\* the parts of an OrderEvent's tag
TagParts(order) == {order.tag[i] : i \in DOMAIN order.tag}

\* C26: every order published for a risk-approved signal carries a tag that
\* names the originating strategy id, for enhanced and original strategies
\* alike, and no order is published for a signal the RiskManager does not
\* approve
C26_OrderTagged ==
    [][adapterOp'.op = "signal"
          => /\ adapterOp'.outcome = "order"
                => /\ Len(order_events') = Len(order_events) + 1
                   /\ StrategyId \in TagParts(order_events'[Len(order_events')])
             /\ adapterOp'.outcome # "order"
                => order_events' = order_events
             /\ (Consulted /\ ~riskResult'.ret[1])
                => order_events' = order_events]_vars

----------------------------------------------------------------------------
(* Health monitor                                                          *)

\* C27: the periodic health monitor marks a RUNNING instance ERROR when its
\* heartbeat has not advanced within the 300 seconds before the cycle: an
\* instance that is RUNNING with a heartbeat older than that when the cycle
\* inspects it is in ERROR after the cycle
C27_StaleMarkedError ==
    [][managerOp'.op = "health"
          => \A id \in DOMAIN strategies :
                (/\ strategies[id].status = "RUNNING"
                 /\ (manager_now + heartbeat_interval) - last_heartbeat[id]
                       > StaleSeconds)
                   => strategies'[id].status = "ERROR"]_vars

----------------------------------------------------------------------------
(* Delivery to the instances one after the other                           *)

\* the RUNNING instances the market event being routed has yet to reach
Undelivered ==
    {id \in DOMAIN strategies :
        /\ routing.active
        /\ id > routing.at
        /\ Selected(id)}

\* C28: delivery of a market event to one strategy instance never waits on
\* another instance: while one instance's handler is suspended, no other
\* RUNNING instance is still waiting for the same event
C28_NoCrossWait ==
    (routing.active /\ routing.waiting # 0) => Undelivered = {}

----------------------------------------------------------------------------
(* The ledger's writers and its equity curve                               *)

\* C29: ledger cash and positions change only inside the fill handler:
\* the handlers of market, signal and order events (with the risk validation
\* and the order placement they perform) and the report generation leave
\* the ledger's cash and position map unchanged
C29_FillOnlyWriter ==
    [][(current_cash' # current_cash \/ positions' # positions)
          => /\ dispatched' = "Fill"
             /\ ledgerOp' = "fill"]_vars

\* an order was placed at the simulator, debiting the broker's funds, while
\* the ledger held the cash and the position left by one fill
C29_Witness ==
    /\ dispatched = "Order"
    /\ brokerRet.op = "place" /\ brokerRet.outcome = "ok"
    /\ current_funds < InitialFunds
    /\ Len(fillLog) = 1
    /\ current_cash = InitialCash - (100 * 100 + 20)
    /\ DOMAIN positions = {"X"}

\* C30: each processed fill appends exactly one snapshot whose cash is the
\* ledger cash after that fill and leaves the earlier snapshots as they
\* were: the curve has one entry more than fills were processed and the
\* curve before the fill is a prefix of the curve after it
C30_SnapshotPerFill ==
    [][fillLog' # fillLog
          => /\ Len(equity_curve') = Len(equity_curve) + 1
             /\ SubSeq(equity_curve', 1, Len(equity_curve)) = equity_curve
             /\ equity_curve'[Len(equity_curve')].cash = current_cash'
             /\ Len(equity_curve') = 1 + Len(fillLog')]_vars

\* three fills were processed, the last one a SELL, and the curve holds the
\* initial snapshot and the cash after each of them
C30_Witness ==
    /\ Len(fillLog) = 3
    /\ Len(equity_curve) = 4
    /\ fillLog[3].transaction_type = "SELL"
    /\ equity_curve[1].cash = InitialCash
    /\ equity_curve[4].cash = current_cash
    /\ equity_curve[3].cash # equity_curve[4].cash

----------------------------------------------------------------------------
(* Failures inside the fill handler and the risk validation                *)

\* the cash a BUY or SELL fill of the stated amount leaves
CashExpected(cash, ev) ==
    IF ev.transaction_type = "BUY"
    THEN cash - ev.quantity * ev.price - ev.brokerage
    ELSE IF ev.transaction_type = "SELL"
    THEN cash + ev.quantity * ev.price - ev.brokerage
    ELSE cash

\* C31: when saving the ledger state fails while a fill is processed, the
\* failure is swallowed: the cash and position update of that fill is kept
\* in memory, its trade record and its equity snapshot are appended, and the
\* handler goes on to process later fills
C31_SaveFailureKept ==
    [][(fillLog' # fillLog /\ lastSave' # "ok")
          => LET ev == fillLog'[Len(fillLog')]
             IN  /\ current_cash' = CashExpected(current_cash, ev)
                 /\ Qty(positions', ev.instrument_token)
                       = Qty(positions, ev.instrument_token) + Signed(ev)
                 /\ portfolio_trades' =
                       Append(portfolio_trades, TradeRecord(ev, current_cash'))
                 /\ Len(equity_curve') = Len(equity_curve) + 1
                 /\ equity_curve'[Len(equity_curve')].cash = current_cash'
                 /\ store'.status # "ok" \/ store' = store]_vars

\* two BUY fills were processed although no save ever succeeded: the file is
\* still absent and the ledger holds the cash and the position of both
C31_Witness ==
    /\ Len(fillLog) = 2
    /\ lastSave = "fail"
    /\ store.status = "absent"
    /\ fillLog[1].transaction_type = "BUY"
    /\ fillLog[2].transaction_type = "BUY"
    /\ fillLog[1].instrument_token = "X"
    /\ fillLog[2].instrument_token = "X"
    /\ Qty(positions, "X") = fillLog[1].quantity + fillLog[2].quantity
    /\ current_cash < InitialCash
    /\ Len(portfolio_trades) = 2
    /\ Len(equity_curve) = 3

\* C32: when a broker query made by validate_order (margin, brokerage or
\* available funds) fails, validate_order returns (False, 0, 0): the caller
\* gets a result and not an exception
C32_QueryFailure ==
    (riskResult.called /\ riskResult.failure # "none")
       => /\ Len(riskResult.ret) = 3
          /\ riskResult.ret[1] = FALSE
          /\ riskResult.ret[2] = Zero
          /\ riskResult.ret[3] = 0

\* the funds query failed for an entry order the funds would have covered
C32_Witness ==
    /\ riskResult.called
    /\ riskResult.failure = "funds"
    /\ riskResult.call.trade_type = "entry"
    /\ ValidateOrder(riskResult.call, riskResult.funds, "none")[1]
    /\ riskResult.ret = <<FALSE, Zero, 0>>

----------------------------------------------------------------------------
(* Average price of opened and reversed positions                          *)

\* the quantity of the fill's instrument before and after the step
QtyBefore == Qty(positions, NewFill.instrument_token)
QtyAfter == Qty(positions', NewFill.instrument_token)

\* the average price stored for the fill's instrument after the step is the
\* fill price
AvgIsFillPrice ==
    LET avg == positions'[NewFill.instrument_token].avg_price
    IN  avg.num = NewFill.price * avg.den

\* C33: when a single fill flips the sign of a position's quantity across
\* zero (long to short by a SELL, short to long by a BUY), the resulting
\* average price equals the fill price
C33_FlipAverage ==
    [][(FillStep /\ (\/ QtyBefore > 0 /\ QtyAfter < 0
                     \/ QtyBefore < 0 /\ QtyAfter > 0))
          => AvgIsFillPrice]_vars

\* C39: a position created by a single fill on a previously flat instrument,
\* a BUY opening a long or a SELL opening a short, has an average price
\* equal to that fill's price
C39_OpeningAverage ==
    [][(FillStep /\ QtyBefore = 0 /\ QtyAfter # 0) => AvgIsFillPrice]_vars

----------------------------------------------------------------------------
(* The simulator's funds                                                   *)

\* the FillEvent published by the step, if any
PublishedFill == fill_events'[Len(fill_events')]

\* C34: for every order filled by the simulator and processed by
\* TradeExecutor, the brokerage carried by the published fill is the
\* brokerage the simulator charged, so that the ledger's cash moves by the
\* amount the simulator's funds moved by
C34_BrokerageCarried ==
    [][Len(fill_events') = Len(fill_events) + 1
          => /\ PublishedFill.brokerage = CalculateBrokerage(PublishedFill)
             /\ CashAfterFill(0, PublishedFill)
                   = current_funds' - current_funds]_vars

----------------------------------------------------------------------------
(* Error counter and isolation queues of the manager                       *)

\* C35: the error counter of an instance counts consecutive handler
\* exceptions: routing moves an instance to ERROR only after max_errors
\* exceptions in a row, failures separated by a successful delivery do not
\* add up
C35_ConsecutiveErrors ==
    [][managerOp'.op = "route"
          => \A id \in DOMAIN strategies :
                (/\ strategies[id].status = "RUNNING"
                 /\ strategies'[id].status = "ERROR")
                   => consec'[id] >= max_errors]_vars

\* C36: every registered instance has its own queue: the identifiers in the
\* registry are the identifiers in the queue map, whether initialization
\* succeeded or failed
C36_QueuePerInstance ==
    DOMAIN strategies = strategy_queues

----------------------------------------------------------------------------
(* Backpressure inside the dispatch loop                                   *)

\* the handler in flight is suspended in a put on a full queue
PutSuspended == inflight.active /\ inflight.pc = "put"

----------------------------------------------------------------------------
(* Funds of the simulated broker                                           *)

\* C38: starting from non-negative funds, the simulator's cash is never
\* negative after any sequence of place_order, cancel_order and
\* modify_order calls
C38_FundsNonNegative == current_funds >= 0
====
